---------------------------- MODULE Spec2Model ----------------------------
(***************************************************************************)
(* A model of minimidi (src/include/minimidi/MiniMidi.hpp): the byte       *)
(* codec, the message generator with its running status, the chunk         *)
(* scanner, the header decoder, Track::sort and the encoder.               *)
(*                                                                         *)
(* Bytes are naturals 0..255.  A buffer is a sequence of bytes; the C++    *)
(* pointer `data + i` is the natural i, so the byte it points to is        *)
(* mem[i + 1].  The memory `mem` holds the caller's buffer (its first      *)
(* `size` bytes) followed by whatever lies behind it in the address space: *)
(* a read at an index >= size is an out-of-bounds read, which yields the   *)
(* byte found there or, past the mapped memory, a fault.                   *)
(***************************************************************************)
EXTENDS Integers, Sequences, FiniteSets, TLC

VARIABLES
    pc,         \* position of the driver program
    mem,        \* the input buffer followed by the memory behind it
    size,       \* size of the input buffer (the `size` argument)
    hdr,        \* MidiHeader: m_format, m_divisionType, m_ticksPerQuarter
    scan,       \* details::TrackGenerator: cursor, bufferEnd, trackIdx, trackNum
    gen,        \* details::MessageGenerator: cursor, bufferEnd, prevEventLen, ...
    messages,   \* Track::messages of the track being built
    tracks,     \* MidiFile::tracks
    err,        \* "none", or the failure that ended the run
    oob,        \* TRUE once a byte at an index >= size has been read
    bytes,      \* container::Bytes written by the encoder
    enc,        \* the encoder: the sorted copy's tracks, the loops' track and
                \* message index, prevTime, prevStatus, track_begin; and
                \* `written`, the events appended so far, chunk by chunk
    last,       \* the last generator step: the generator before it, its outcome
    round,      \* 1 while the input is the caller's, 2 once it is the encoder's
    first,      \* what round 1 decoded and encoded
    input,      \* the argument of the codec function under study
    output,     \* what that function returned
    iter        \* TrackView::iterator: its msg (its generator is gen)

vars == <<pc, mem, size, hdr, scan, gen, messages, tracks, err, oob, bytes, enc,
          last, round, first, input, output, iter>>

-----------------------------------------------------------------------------
(* Helpers *)

Max(a, b) == IF a >= b THEN a ELSE b

\* mem[i] of the C++ code; 0 stands for a byte of unmapped memory, whose
\* value is never used: the step that read it ends in a fault.
Rd(m, i) == IF i < Len(m) THEN m[i + 1] ELSE 0

\* The bytes m[from .. from + n - 1]
Slice(m, from, n) == [k \in 1..n |-> Rd(m, from + k - 1)]

RECURSIVE Concat(_)
Concat(ss) == IF ss = <<>> THEN <<>> ELSE Head(ss) \o Concat(Tail(ss))

-----------------------------------------------------------------------------
(* utils: the variable-length and MSB-first codecs *)

\* utils::read_variable_length: value, the cursor past the bytes read.  Four
\* bytes give 28 bits: the uint32_t never wraps.
read_variable_length(m, c) ==
    LET b1 == Rd(m, c)
        b2 == Rd(m, c + 1)
        b3 == Rd(m, c + 2)
        b4 == Rd(m, c + 3)
        v1 == b1 % 128
        v2 == v1 * 128 + (b2 % 128)
        v3 == v2 * 128 + (b3 % 128)
        v4 == v3 * 128 + (b4 % 128)
    IN  IF b1 < 128 THEN [value |-> v1, next |-> c + 1]
        ELSE IF b2 < 128 THEN [value |-> v2, next |-> c + 2]
        ELSE IF b3 < 128 THEN [value |-> v3, next |-> c + 3]
        ELSE [value |-> v4, next |-> c + 4]

\* utils::read_msb_bytes.  TLC's integers end at 2^31: a value of
\* 2^30 or more is stood for by 2^30, which is past every buffer end it is
\* compared with.
RECURSIVE read_msb_bytes(_, _, _)
read_msb_bytes(m, c, length) ==
    IF length = 0 THEN 0
    ELSE LET res == read_msb_bytes(m, c, length - 1)
         IN  IF res >= 2 ^ 22 THEN 2 ^ 30 ELSE res * 256 + Rd(m, c + length - 1)

\* utils::write_msb_bytes: the `length` low bytes of value, MSB first
write_msb_bytes(value, length) ==
    [i \in 1..length |-> (value \div (256 ^ (length - i))) % 256]

\* A length table whose limits are off by one
calc_variable_length_inclusive(num) ==
    IF num <= 128 THEN 1
    ELSE IF num <= 16384 THEN 2
    ELSE IF num <= 2097152 THEN 3
    ELSE 4

\* utils::calc_variable_length
calc_variable_length(num) ==
    IF num < 128 THEN 1
    ELSE IF num < 16384 THEN 2
    ELSE IF num < 2097152 THEN 3
    ELSE 4

\* One continuation byte of write_variable_length:
\* static_cast<uint8_t>((num >> shift) | 0x80)
ContinuationByte(num, shift) == ((num \div (2 ^ shift)) % 128) + 128

\* utils::write_variable_length(container::Bytes&, uint32_t): the bytes appended
write_variable_length(num) ==
    LET byteNum == calc_variable_length(num)
    IN  [i \in 1..byteNum |->
            IF i < byteNum THEN ContinuationByte(num, 7 * (byteNum - i))
            ELSE num % 128]

-----------------------------------------------------------------------------
(* lut: the status tables generated from MIDI_MESSAGE_TYPE *)

\* lut::to_msg_type: MESSAGE_TYPE_TABLE[status]
to_msg_type(status) ==
    IF status < 128 THEN "Unknown"
    ELSE IF status < 144 THEN "NoteOff"
    ELSE IF status < 160 THEN "NoteOn"
    ELSE IF status < 176 THEN "PolyphonicAfterTouch"
    ELSE IF status < 192 THEN "ControlChange"
    ELSE IF status < 208 THEN "ProgramChange"
    ELSE IF status < 224 THEN "ChannelAfterTouch"
    ELSE IF status < 240 THEN "PitchBend"
    ELSE CASE status = 240 -> "SysExStart"
           [] status = 241 -> "QuarterFrame"
           [] status = 242 -> "SongPositionPointer"
           [] status = 243 -> "SongSelect"
           [] status = 246 -> "TuneRequest"
           [] status = 247 -> "SysExEnd"
           [] status = 248 -> "TimingClock"
           [] status = 250 -> "StartSequence"
           [] status = 251 -> "ContinueSequence"
           [] status = 252 -> "StopSequence"
           [] status = 254 -> "ActiveSensing"
           [] status = 255 -> "Meta"
           [] OTHER -> "Unknown"

\* lut::get_msg_length: MESSAGE_LENGTH, whose entries are
\* static_cast<uint8_t>(length), so that 65535 is stored as 255
get_msg_length(type) ==
    CASE type \in {"NoteOff", "NoteOn", "PolyphonicAfterTouch", "ControlChange",
                   "PitchBend", "SongPositionPointer"} -> 3
      [] type \in {"ProgramChange", "ChannelAfterTouch", "QuarterFrame",
                   "SongSelect"} -> 2
      [] type \in {"TuneRequest", "SysExEnd", "TimingClock", "StartSequence",
                   "ContinueSequence", "StopSequence", "ActiveSensing"} -> 1
      [] OTHER -> 65535 % 256

\* lut::to_meta_type(b) == MetaType::EndOfTrack
IsEndOfTrackType(b) == b = 47

\* Message<T>(time, statusByte, begin, size)
Message(time, statusByte, data) ==
    [time |-> time, statusByte |-> statusByte, data |-> data]

-----------------------------------------------------------------------------
(* details::MessageGenerator *)

\* MessageGenerator(begin, size)
MessageGenerator(begin, sz) ==
    [cursor |-> begin, bufferEnd |-> begin + sz, prevEventLen |-> 0,
     tickOffset |-> 0, prevStatusCode |-> 0, foundEOT |-> FALSE]

\* MessageGenerator::done
done(g) == g.cursor >= g.bufferEnd

\* The result of one handler: the generator afterwards, the messages handed
\* to f (none or one), the exception thrown ("none" if none) and `hi`, one
\* past the highest index the handler read.
Outcome(g, emit, e, hi) == [g |-> g, emit |-> emit, err |-> e, hi |-> hi]

\* A running_status_msg without the test of prevEventLen
running_status_msg_unchecked(m, g) ==
    IF g.cursor + g.prevEventLen - 1 > g.bufferEnd
    THEN Outcome(g, <<>>, "UnexpectedEof", g.cursor + 1)
    ELSE Outcome([g EXCEPT !.cursor = g.cursor + g.prevEventLen - 1],
                 <<Message(g.tickOffset, g.prevStatusCode,
                           Slice(m, g.cursor, g.prevEventLen - 1))>>,
                 "none", g.cursor + Max(1, g.prevEventLen - 1))

\* MessageGenerator::running_status_msg; g.cursor is at the data byte
running_status_msg(m, g) ==
    IF g.prevEventLen = 0 THEN Outcome(g, <<>>, "Corrupted", g.cursor + 1)
    ELSE IF g.cursor + g.prevEventLen - 1 > g.bufferEnd
    THEN Outcome(g, <<>>, "UnexpectedEof", g.cursor + 1)
    ELSE Outcome([g EXCEPT !.cursor = g.cursor + g.prevEventLen - 1],
                 <<Message(g.tickOffset, g.prevStatusCode,
                           Slice(m, g.cursor, g.prevEventLen - 1))>>,
                 "none", g.cursor + Max(1, g.prevEventLen - 1))

\* MessageGenerator::sysex_msg; g.cursor is at the status byte
sysex_msg(m, g) ==
    LET prevBuffer == g.cursor
        vl == read_variable_length(m, prevBuffer + 1)
        len == (vl.value + (vl.next - prevBuffer))
        g1 == [g EXCEPT !.prevStatusCode = Rd(m, prevBuffer),
                        !.prevEventLen = len, !.cursor = vl.next]
    IN  IF prevBuffer + len > g.bufferEnd
        THEN Outcome(g1, <<>>, "UnexpectedEof", vl.next)
        ELSE Outcome([g1 EXCEPT !.cursor = prevBuffer + len],
                     <<Message(g.tickOffset, Rd(m, prevBuffer),
                               Slice(m, prevBuffer + 1, len - 1))>>,
                     "none", Max(vl.next, prevBuffer + len))

\* A meta_msg that treats EndOfTrack as any other Meta event
meta_msg_no_halt(m, g) ==
    LET prevBuffer == g.cursor
        vl == read_variable_length(m, prevBuffer + 2)
        eventLen == vl.value + (vl.next - prevBuffer)
    IN  IF prevBuffer + eventLen > g.bufferEnd
        THEN Outcome([g EXCEPT !.cursor = vl.next], <<>>, "UnexpectedEof", vl.next)
        ELSE Outcome([g EXCEPT !.cursor = prevBuffer + eventLen],
                     <<Message(g.tickOffset, Rd(m, prevBuffer),
                               Slice(m, prevBuffer + 1, eventLen - 1))>>,
                     "none", Max(vl.next, prevBuffer + eventLen))

\* A meta_msg that records the Meta event as the previous status, as
\* sysex_msg does
meta_msg_sets_status(m, g) ==
    LET prevBuffer == g.cursor
        vl == read_variable_length(m, prevBuffer + 2)
        eventLen == vl.value + (vl.next - prevBuffer)
        metaBegin == prevBuffer + 1
        g1 == [g EXCEPT !.prevStatusCode = Rd(m, prevBuffer), !.prevEventLen = eventLen]
    IN  IF prevBuffer + eventLen > g.bufferEnd
        THEN Outcome([g1 EXCEPT !.cursor = vl.next], <<>>, "UnexpectedEof", vl.next)
        ELSE IF IsEndOfTrackType(Rd(m, metaBegin))
        THEN Outcome([g1 EXCEPT !.cursor = g.bufferEnd, !.foundEOT = TRUE],
                     <<>>, "none", vl.next)
        ELSE Outcome([g1 EXCEPT !.cursor = prevBuffer + eventLen],
                     <<Message(g.tickOffset, Rd(m, prevBuffer),
                               Slice(m, metaBegin, eventLen - 1))>>,
                     "none", Max(vl.next, prevBuffer + eventLen))

\* MessageGenerator::meta_msg; g.cursor is at the status byte
meta_msg(m, g) ==
    LET prevBuffer == g.cursor
        vl == read_variable_length(m, prevBuffer + 2)
        eventLen == vl.value + (vl.next - prevBuffer)
        metaBegin == prevBuffer + 1
    IN  IF prevBuffer + eventLen > g.bufferEnd
        THEN Outcome([g EXCEPT !.cursor = vl.next], <<>>, "UnexpectedEof", vl.next)
        ELSE IF IsEndOfTrackType(Rd(m, metaBegin))
        THEN Outcome([g EXCEPT !.cursor = g.bufferEnd, !.foundEOT = TRUE],
                     <<>>, "none", vl.next)
        ELSE Outcome([g EXCEPT !.cursor = prevBuffer + eventLen],
                     <<Message(g.tickOffset, Rd(m, prevBuffer),
                               Slice(m, metaBegin, eventLen - 1))>>,
                     "none", Max(vl.next, prevBuffer + eventLen))

\* The number of payload bytes common_msg hands to f
CommonPayloadLen(prevEventLen) == 2

\* MessageGenerator::common_msg; g.cursor is at the status byte
common_msg(m, g) ==
    LET curStatusCode == Rd(m, g.cursor)
        len == get_msg_length(to_msg_type(curStatusCode))
        g1 == [g EXCEPT !.prevStatusCode = curStatusCode, !.prevEventLen = len]
        n == CommonPayloadLen(len)
    IN  IF g.cursor + len > g.bufferEnd
        THEN Outcome(g1, <<>>, "UnexpectedEof", g.cursor + 1)
        ELSE Outcome([g1 EXCEPT !.cursor = g.cursor + len],
                     <<Message(g.tickOffset, curStatusCode,
                               Slice(m, g.cursor + 1, n))>>,
                     "none", g.cursor + 1 + n)

\* A generator whose messages carry the delta alone as their time
AddTickDeltaOnly(tickOffset, delta) == delta

\* tickOffset += delta.  The deltas of the inputs are small: the sum stays
\* far below the 2^32 at which the uint32_t wraps.
AddTick(tickOffset, delta) == tickOffset + delta

\* MessageGenerator::emplace_using: one event.  The delta and the status
\* byte are read without a bounds check.
emplace_using(m, g) ==
    LET vl == read_variable_length(m, g.cursor)
        g1 == [g EXCEPT !.tickOffset = AddTick(g.tickOffset, vl.value),
                        !.cursor = vl.next]
        curStatusCode == Rd(m, vl.next)
    IN  IF curStatusCode = 240 THEN sysex_msg(m, g1)
        ELSE IF curStatusCode = 255 THEN meta_msg(m, g1)
        ELSE IF curStatusCode < 128 THEN running_status_msg(m, g1)
        ELSE common_msg(m, g1)

\* What a step that read up to index hi - 1 of a buffer of sz bytes ends in:
\* past the mapped memory the read faults, whatever the handler computed.
Fault(m, out) == out.hi > Len(m)

-----------------------------------------------------------------------------
(* MidiHeader and details::TrackGenerator *)

MTHD == <<77, 84, 104, 100>>
MTRK == <<77, 84, 114, 107>>

\* MidiHeader::HEADER_LENGTH
HEADER_LENGTH == 14

\* A format check that lets format 3 through
IsMidiFormatUpTo3(data) == data \in {0, 1, 2, 3}

\* read_midiformat: the formats of MIDI_FORMAT
IsMidiFormat(data) == data \in {0, 1, 2}

NoHeader == [m_format |-> 0, m_divisionType |-> 0, m_ticksPerQuarter |-> 0]

\* MidiHeader::MidiHeader(const uint8_t*, size_t)
MidiHeader(m, sz) ==
    IF sz < HEADER_LENGTH THEN [err |-> "InvalidHeader", h |-> NoHeader]
    ELSE IF Slice(m, 0, 4) # MTHD THEN [err |-> "InvalidHeader", h |-> NoHeader]
    ELSE IF read_msb_bytes(m, 4, 4) # 6 THEN [err |-> "InvalidHeader", h |-> NoHeader]
    ELSE IF ~IsMidiFormat(read_msb_bytes(m, 8, 2))
    THEN [err |-> "InvalidHeader", h |-> NoHeader]
    ELSE [err |-> "none",
          h |-> [m_format |-> read_msb_bytes(m, 8, 2),
                 m_divisionType |-> (Rd(m, 12) \div 128) % 2,
                 m_ticksPerQuarter |-> (Rd(m, 12) % 128) * 256 + Rd(m, 13)]]

\* TrackGenerator(cursor, bufferEnd, trackNum)
TrackGenerator(cursor, bufferEnd, trackNum) ==
    [cursor |-> cursor, bufferEnd |-> bufferEnd, trackIdx |-> 0, trackNum |-> trackNum]

\* TrackGenerator::done
scan_done(t) == t.cursor >= t.bufferEnd \/ t.trackIdx >= t.trackNum

NoGenerator == MessageGenerator(0, 0)
NoScan == TrackGenerator(0, 0, 0)
NoEnc == [tracks |-> <<>>, track |-> 0, msg |-> 0, prevTime |-> 0, prevStatus |-> 0,
          track_begin |-> 0, written |-> <<>>]
NoLast == [pre |-> NoGenerator, out |-> Outcome(NoGenerator, <<>>, "none", 0)]
NoFirst == [tracks |-> <<>>, bytes |-> <<>>]
NoOutput == [value |-> 0, next |-> 0]

\* TrackView::iterator(): Message<T> msg, default-constructed
NoIter == [msg |-> Message(0, 0, <<>>)]

\* A step that read the bytes below index hi: the reads at an index >= size
\* are out of bounds, and those past the mapped memory fault.
Reads(hi) == oob' = (oob \/ hi > size)

Fail(e) == pc' = "failed" /\ err' = e

-----------------------------------------------------------------------------
(* Decoding: MidiFile(data, size), the loop over MidiFileView and            *)
(* Track(cursor, size)                                                       *)

\* MidiFileView(data, size): the header, then cursor, bufferEnd and trackNum
DecodeHeader ==
    /\ pc = "start"
    /\ LET r == MidiHeader(mem, size)
       IN  IF r.err # "none"
           THEN /\ Fail(r.err)
                /\ UNCHANGED <<hdr, scan>>
           ELSE /\ hdr' = r.h
                /\ scan' = TrackGenerator(HEADER_LENGTH, size, read_msb_bytes(mem, 10, 2))
                /\ pc' = "scan"
                /\ err' = err
    /\ UNCHANGED <<mem, size, gen, messages, tracks, oob, bytes, enc, last, round,
                   first, input,
                   output, iter>>

\* MidiFileView::iterator::advance: end of the iteration, or next()
Advance ==
    /\ pc = "scan"
    /\ pc' = IF scan_done(scan) THEN "decoded" ELSE "chunk"
    /\ UNCHANGED <<mem, size, hdr, scan, gen, messages, tracks, err, oob, bytes, enc,
                   last, round, first, input, output, iter>>

\* A scanner that passes an unknown chunk by its length alone, without the
\* 8 bytes of its header
SkipChunkBodyOnly ==
    /\ pc = "chunk"
    /\ Slice(mem, scan.cursor, 4) # MTRK
    /\ LET tmpLen == read_msb_bytes(mem, scan.cursor + 4, 4)
       IN  /\ Reads(scan.cursor + 8)
           /\ IF scan.cursor + 8 > Len(mem)
              THEN Fail("fault") /\ scan' = scan
              ELSE IF scan.cursor + tmpLen + 8 > scan.bufferEnd
              THEN Fail("UnexpectedEof") /\ scan' = scan
              ELSE /\ scan' = [scan EXCEPT !.cursor = scan.cursor + tmpLen]
                   /\ pc' = "chunk"
                   /\ err' = err
    /\ UNCHANGED <<mem, size, hdr, gen, messages, tracks, bytes, enc, last, round,
                   first, input,
                   output, iter>>

\* TrackGenerator::parse_chunk_len, one turn of its loop: a chunk that is
\* not MTrk is skipped
SkipChunk ==
    /\ pc = "chunk"
    /\ Slice(mem, scan.cursor, 4) # MTRK
    /\ LET tmpLen == read_msb_bytes(mem, scan.cursor + 4, 4)
       IN  /\ Reads(scan.cursor + 8)
           /\ IF scan.cursor + 8 > Len(mem)
              THEN Fail("fault") /\ scan' = scan
              ELSE IF scan.cursor + tmpLen + 8 > scan.bufferEnd
              THEN Fail("UnexpectedEof") /\ scan' = scan
              ELSE /\ scan' = [scan EXCEPT !.cursor = scan.cursor + 8 + tmpLen]
                   /\ pc' = "chunk"
                   /\ err' = err
    /\ UNCHANGED <<mem, size, hdr, gen, messages, tracks, bytes, enc, last, round,
                   first, input,
                   output, iter>>

\* TrackGenerator::parse_chunk_len returning on MTrk, the rest of next(),
\* and the start of Track(view.cursor, view.size)
NextTrack ==
    /\ pc = "chunk"
    /\ Slice(mem, scan.cursor, 4) = MTRK
    /\ LET chunkLen == read_msb_bytes(mem, scan.cursor + 4, 4)
       IN  /\ Reads(scan.cursor + 8)
           /\ IF scan.cursor + 8 > Len(mem)
              THEN Fail("fault") /\ UNCHANGED <<scan, gen, messages>>
              ELSE /\ gen' = MessageGenerator(scan.cursor + 8, chunkLen)
                   /\ messages' = <<>>
                   /\ scan' = [scan EXCEPT !.cursor = scan.cursor + 8 + chunkLen,
                                           !.trackIdx = scan.trackIdx + 1]
                   /\ pc' = "gen"
                   /\ err' = err
    /\ UNCHANGED <<mem, size, hdr, tracks, bytes, enc, last, round, first, input,
                   output, iter>>

\* Track(cursor, size): one turn of `while (!generator.done())`
Emplace ==
    /\ pc = "gen"
    /\ ~done(gen)
    /\ LET out == emplace_using(mem, gen)
       IN  /\ Reads(out.hi)
           /\ last' = [pre |-> gen, out |-> out]
           /\ IF Fault(mem, out)
              THEN Fail("fault") /\ UNCHANGED <<gen, messages>>
              ELSE IF out.err # "none"
              THEN Fail(out.err) /\ UNCHANGED <<gen, messages>>
              ELSE /\ gen' = out.g
                   /\ messages' = messages \o out.emit
                   /\ UNCHANGED <<pc, err>>
    /\ UNCHANGED <<mem, size, hdr, scan, tracks, bytes, enc, round, first, input,
                   output, iter>>

\* Track(cursor, size) returns; tracks.emplace_back(trackView); ++iterator
TrackDone ==
    /\ pc = "gen"
    /\ done(gen)
    /\ tracks' = Append(tracks, messages)
    /\ pc' = "scan"
    /\ UNCHANGED <<mem, size, hdr, scan, gen, messages, err, oob, bytes, enc, last,
                   round, first, input,
                   output, iter>>

NextDecode == DecodeHeader \/ Advance \/ SkipChunk \/ NextTrack \/ Emplace \/ TrackDone

-----------------------------------------------------------------------------
(* Track::sort and MidiFile::sort *)

\* A copy_if that filters nothing
KeepsEveryMessage(msg) == TRUE

\* The predicate of copy_if in Track::sort: the message is not an EndOfTrack
NotEndOfTrack(msg) ==
    to_msg_type(msg.statusByte) # "Meta" \/ ~IsEndOfTrackType(msg.data[1])

RECURSIVE copy_if(_)
copy_if(msgs) ==
    IF msgs = <<>> THEN <<>>
    ELSE IF NotEndOfTrack(Head(msgs)) THEN <<Head(msgs)>> \o copy_if(Tail(msgs))
    ELSE copy_if(Tail(msgs))

\* The comparator of is_sorted and stable_sort
TimeLess(lhs, rhs) == lhs.time < rhs.time

\* std::is_sorted with that comparator
is_sorted(msgs) ==
    \A i \in 1..(Len(msgs) - 1) : ~TimeLess(msgs[i + 1], msgs[i])

\* An unstable insertion: msg goes before the elements of its own time
RECURSIVE InsertBeforeEqual(_, _)
InsertBeforeEqual(sorted, msg) ==
    IF sorted = <<>> THEN <<msg>>
    ELSE IF ~TimeLess(Head(sorted), msg) THEN <<msg>> \o sorted
    ELSE <<Head(sorted)>> \o InsertBeforeEqual(Tail(sorted), msg)

\* Where stable_sort puts msg in an already sorted run: behind every element
\* that does not compare greater
RECURSIVE InsertStable(_, _)
InsertStable(sorted, msg) ==
    IF sorted = <<>> THEN <<msg>>
    ELSE IF TimeLess(msg, Head(sorted)) THEN <<msg>> \o sorted
    ELSE <<Head(sorted)>> \o InsertStable(Tail(sorted), msg)

\* std::stable_sort with that comparator
RECURSIVE stable_sort(_)
stable_sort(msgs) ==
    IF msgs = <<>> THEN <<>>
    ELSE InsertStable(stable_sort(SubSeq(msgs, 1, Len(msgs) - 1)), msgs[Len(msgs)])

\* Track::sort
Track_sort(msgs) ==
    LET sortedTrack == copy_if(msgs)
    IN  IF ~is_sorted(sortedTrack) THEN stable_sort(sortedTrack) ELSE sortedTrack

\* MidiFile::sort: the tracks of sortedFile
MidiFile_sort(ts) == [i \in 1..Len(ts) |-> Track_sort(ts[i])]

-----------------------------------------------------------------------------
(* Encoding: MidiFile::to_bytes and to_bytes_sorted *)

\* An event of the output: its status byte and the bytes behind it
Event(statusByte, data) == [statusByte |-> statusByte, data |-> data]

\* The event write_eot appends: Meta, EndOfTrack, length 0
EndOfTrackEvent == Event(255, <<47, 0>>)

\* An EndOfTrack event with delta 0
write_eot_delta0 == write_variable_length(0) \o <<255, 47, 0>>

\* utils::write_eot(container::Bytes&): the bytes appended
write_eot == write_variable_length(1) \o <<255, 47, 0>>

\* Running status applied to every status alike
WritesStatusIfChanged(curStatus, prevStatus) == curStatus # prevStatus

\* The test of to_bytes_sorted that the status byte is written
WritesStatus(curStatus, prevStatus) ==
    curStatus = 255 \/ curStatus = 240 \/ curStatus = 247 \/ curStatus # prevStatus

\* curTime - prevTime in uint32_t.  A wrapped difference 2^32 - (prevTime -
\* curTime) is stood for by a number above 2^28 with the same low 28 bits,
\* which are all that write_variable_length reads of it.
DeltaTime(curTime, prevTime) ==
    IF curTime >= prevTime THEN curTime - prevTime
    ELSE (2 ^ 28) + ((curTime - prevTime) % (2 ^ 28))

\* What the body of the message loop of to_bytes_sorted appends for msg
MessageBytes(msg, prevTime, prevStatus) ==
    write_variable_length(DeltaTime(msg.time, prevTime))
    \o (IF WritesStatus(msg.statusByte, prevStatus) THEN <<msg.statusByte>> ELSE <<>>)
    \o msg.data

\* A patch of the chunk length that counts the 8-byte header as well
PatchWithHeader(b, at, value, n) ==
    [i \in 1..Len(b) |->
        IF i > at /\ i <= at + n THEN write_msb_bytes(value + 8, n)[i - at] ELSE b[i]]

\* bytes with the n bytes at index at replaced by write_msb_bytes(value, n)
Patch(b, at, value, n) ==
    [i \in 1..Len(b) |->
        IF i > at /\ i <= at + n THEN write_msb_bytes(value, n)[i - at] ELSE b[i]]

\* MidiFile::to_bytes: sort()
Sort ==
    /\ pc = "decoded"
    /\ enc' = [NoEnc EXCEPT !.tracks = MidiFile_sort(tracks)]
    /\ pc' = "write_head"
    /\ UNCHANGED <<mem, size, hdr, scan, gen, messages, tracks, err, oob, bytes, last,
                   round, first, input,
                   output, iter>>

\* to_bytes_sorted: the 14 bytes of MThd; ticks_per_quarter() throws for
\* an SMPTE division
WriteHeader ==
    /\ pc = "write_head"
    /\ IF hdr.m_divisionType # 0
       THEN Fail("runtime_error") /\ UNCHANGED <<bytes, enc>>
       ELSE /\ bytes' = MTHD \o <<0, 0, 0, 6>> \o <<0, hdr.m_format % 256>>
                        \o write_msb_bytes(Len(enc.tracks), 2)
                        \o write_msb_bytes(hdr.m_divisionType * 32768
                                           + hdr.m_ticksPerQuarter, 2)
            /\ enc' = [enc EXCEPT !.track = 1]
            /\ pc' = "write_track"
            /\ err' = err
    /\ UNCHANGED <<mem, size, hdr, scan, gen, messages, tracks, oob, last, round,
                   first, input,
                   output, iter>>

\* to_bytes_sorted: "MTrk" and the placeholder of the chunk length
WriteTrackHead ==
    /\ pc = "write_track"
    /\ enc.track <= Len(enc.tracks)
    /\ bytes' = bytes \o MTRK \o <<0, 0, 0, 0>>
    /\ enc' = [enc EXCEPT !.track_begin = Len(bytes), !.msg = 1, !.prevTime = 0,
                          !.prevStatus = 0, !.written = Append(enc.written, <<>>)]
    /\ pc' = "write_msg"
    /\ UNCHANGED <<mem, size, hdr, scan, gen, messages, tracks, err, oob, last, round,
                   first, input,
                   output, iter>>

\* to_bytes_sorted: one message of the track
WriteMessage ==
    /\ pc = "write_msg"
    /\ enc.msg <= Len(enc.tracks[enc.track])
    /\ LET msg == enc.tracks[enc.track][enc.msg]
       IN  /\ bytes' = bytes \o MessageBytes(msg, enc.prevTime, enc.prevStatus)
           /\ enc' = [enc EXCEPT !.msg = enc.msg + 1, !.prevTime = msg.time,
                                 !.prevStatus = msg.statusByte,
                                 !.written[enc.track] = Append(@, Event(msg.statusByte, msg.data))]
    /\ UNCHANGED <<pc, mem, size, hdr, scan, gen, messages, tracks, err, oob, last,
                   round, first, input,
                   output, iter>>

\* to_bytes_sorted: the end of a track, write_eot and the chunk length
WriteEot ==
    /\ pc = "write_msg"
    /\ enc.msg > Len(enc.tracks[enc.track])
    /\ LET b == bytes \o write_eot
       IN  bytes' = Patch(b, enc.track_begin + 4, Len(b) - enc.track_begin - 8, 4)
    /\ enc' = [enc EXCEPT !.track = enc.track + 1,
                          !.written[enc.track] = Append(@, EndOfTrackEvent)]
    /\ pc' = "write_track"
    /\ UNCHANGED <<mem, size, hdr, scan, gen, messages, tracks, err, oob, last, round,
                   first, input,
                   output, iter>>

\* to_bytes_sorted returns bytes
WriteDone ==
    /\ pc = "write_track"
    /\ enc.track > Len(enc.tracks)
    /\ pc' = "encoded"
    /\ UNCHANGED <<mem, size, hdr, scan, gen, messages, tracks, err, oob, bytes, enc,
                   last, round, first, input, output, iter>>

NextEncode == Sort \/ WriteHeader \/ WriteTrackHead \/ WriteMessage \/ WriteEot \/ WriteDone

\* The driver of the round trip: MidiFile(file.to_bytes())
Reload ==
    /\ pc = "encoded"
    /\ round = 1
    /\ first' = [tracks |-> tracks, bytes |-> bytes]
    /\ mem' = bytes \o SubSeq(mem, size + 1, Len(mem))
    /\ size' = Len(bytes)
    /\ round' = 2
    /\ pc' = "start"
    /\ tracks' = <<>>
    /\ bytes' = <<>>
    /\ UNCHANGED <<hdr, scan, gen, messages, err, oob, enc, last, input,
                   output, iter>>

Next == NextDecode \/ NextEncode \/ Reload

-----------------------------------------------------------------------------
(* The inputs: byte buffers built from wire events *)

\* The bounds of the inputs
MaxEvents == 3
MaxCut == 2

\* Wire events, each with its delta: what it is to the SMF grammar
\*   voice3/voice2: a voice event with its status byte and 2/1 data bytes
\*   run3/run2:     the same without the status byte (running status)
\*   common1:       a one-byte system message
\*   meta, eot, sysex, sysexend
Events ==
    { [kind |-> "voice3",   wire |-> <<0, 144, 60, 100>>],
      [kind |-> "voice3",   wire |-> <<129, 0, 128, 60, 64>>],
      [kind |-> "run3",     wire |-> <<16, 60, 0>>],
      [kind |-> "voice2",   wire |-> <<0, 192, 5>>],
      [kind |-> "run2",     wire |-> <<32, 7>>],
      [kind |-> "common1",  wire |-> <<0, 246>>],
      [kind |-> "meta",     wire |-> <<0, 255, 1, 1, 65>>],
      [kind |-> "eot",      wire |-> <<0, 255, 47, 0>>],
      [kind |-> "sysex",    wire |-> <<0, 240, 2, 126, 247>>],
      [kind |-> "sysexend", wire |-> <<0, 247, 1, 126>>] }

RECURSIVE SeqsUpTo(_, _)
SeqsUpTo(S, n) ==
    IF n = 0 THEN {<<>>}
    ELSE LET P == SeqsUpTo(S, n - 1)
         IN  P \cup {Append(p, e) : p \in {q \in P : Len(q) = n - 1}, e \in S}

\* The running status the SMF grammar has after the events es: the kind of
\* the last voice event, "none" at the start and after SysEx and system
\* messages; Meta events leave it as it is
RECURSIVE RunningKind(_)
RunningKind(es) ==
    IF es = <<>> THEN "none"
    ELSE LET e == es[Len(es)].kind
             before == RunningKind(SubSeq(es, 1, Len(es) - 1))
         IN  CASE e \in {"voice3", "run3"} -> "voice3"
               [] e \in {"voice2", "run2"} -> "voice2"
               [] e \in {"meta", "eot"} -> before
               [] OTHER -> "none"

\* es is a track body of the SMF grammar: a status-less event follows a
\* voice status of its length, and nothing follows EndOfTrack
ValidEvents(es) ==
    \A i \in 1..Len(es) :
        /\ es[i].kind = "run3" => RunningKind(SubSeq(es, 1, i - 1)) = "voice3"
        /\ es[i].kind = "run2" => RunningKind(SubSeq(es, 1, i - 1)) = "voice2"
        /\ es[i].kind = "eot" => i = Len(es)

Wire(es) == Concat([i \in 1..Len(es) |-> es[i].wire])

\* The 14 bytes of an MThd chunk
HeaderBytes(format, ntrks, division) ==
    MTHD \o <<0, 0, 0, 6>> \o write_msb_bytes(format, 2) \o write_msb_bytes(ntrks, 2)
    \o write_msb_bytes(division, 2)

\* A chunk: its ID, the length it declares, its body
ChunkBytes(id, declared, body) == id \o write_msb_bytes(declared, 4) \o body

XYZQ == <<88, 89, 90, 113>>

\* What may lie behind the buffer: unmapped memory, or other bytes, which
\* may look like a chunk
Beyond == { <<>>, <<144, 0, 255, 47, 0, 0, 0, 0>>, MTRK \o <<0, 0, 0, 0>> }

\* Division words: type bit 0 and 480 ticks per quarter; type bit 1 (SMPTE),
\* -25 frames in seven bits, 40 ticks per frame
TicksDivision == 0 * 32768 + 480
SmpteDivision == 1 * 32768 + (128 - 25) * 256 + 40

EndOfTrackWire == <<0, 255, 47, 0>>

\* Track bodies of the SMF grammar: up to MaxEvents events, then EndOfTrack
ValidBodies ==
    { Wire(es) \o EndOfTrackWire :
        es \in { x \in SeqsUpTo(Events, MaxEvents) :
                   ValidEvents(x) /\ \A i \in 1..Len(x) : x[i].kind # "eot" } }

ShortValidBodies == { b \in ValidBodies : Len(b) <= 8 }

\* Valid files: one track; an unknown chunk before the track; two tracks
ValidFiles ==
    { HeaderBytes(1, 1, TicksDivision) \o ChunkBytes(MTRK, Len(b), b) : b \in ValidBodies }
    \cup { HeaderBytes(0, 1, d) \o ChunkBytes(XYZQ, 2, <<1, 2>>) \o ChunkBytes(MTRK, Len(b), b) :
             b \in ShortValidBodies, d \in {TicksDivision, SmpteDivision} }
    \cup { HeaderBytes(f, 2, TicksDivision) \o ChunkBytes(MTRK, Len(b), b)
             \o ChunkBytes(MTRK, Len(c), c) :
             b \in ShortValidBodies, c \in ShortValidBodies, f \in {1, 2} }

\* Track bodies of any events: up to MaxEvents whole events, or fewer events
\* with up to MaxCut bytes cut off the last one
AnyBodies ==
    { Wire(es) : es \in SeqsUpTo(Events, MaxEvents) }
    \cup UNION { { SubSeq(Wire(es), 1, Len(Wire(es)) - cut) :
                     cut \in { c \in 1..MaxCut : c <= Len(Wire(es)) } } :
                 es \in SeqsUpTo(Events, MaxEvents - 1) }

ShortAnyBodies == { b \in AnyBodies : Len(b) <= 4 }

\* Files of one MTrk chunk whose declared length is the body's
OneTrackFiles ==
    { HeaderBytes(1, 1, TicksDivision) \o ChunkBytes(MTRK, Len(b), b) : b \in AnyBodies }

\* Files whose chunks and header disagree with the buffer: a declared length
\* that is not the body's, a track count that is not the number of MTrk
\* chunks, unknown chunks, stray bytes behind the last chunk
OddFiles ==
    { HeaderBytes(1, n, TicksDivision) \o ChunkBytes(MTRK, Max(0, Len(b) + d), b) :
        b \in ShortAnyBodies, d \in (0 - MaxCut)..MaxCut, n \in 0..2 }
    \cup { HeaderBytes(1, n, TicksDivision) \o ChunkBytes(XYZQ, 2 + d, <<1, 2>>)
             \o ChunkBytes(MTRK, Len(b), b) \o t :
             b \in ShortValidBodies, d \in 0..MaxCut, n \in 1..2,
             t \in { <<>>, <<7>>, ChunkBytes(XYZQ, 0, <<>>) } }
    \cup { HeaderBytes(1, 2, TicksDivision) \o ChunkBytes(MTRK, Len(b), b)
             \o ChunkBytes(XYZQ, 1, <<9>>) \o ChunkBytes(MTRK, Len(c), c) :
             b \in ShortValidBodies, c \in ShortValidBodies }

\* Track bodies of the SMF grammar that end without an EndOfTrack
OpenBodies ==
    { Wire(es) : es \in { x \in SeqsUpTo(Events, MaxEvents - 1) :
                            /\ x # <<>>
                            /\ ValidEvents(x)
                            /\ \A i \in 1..Len(x) : x[i].kind # "eot" } }

ShortOpenBodies == { b \in OpenBodies : Len(b) <= 4 }

\* Well-formed files with unknown chunks before and between two MTrk
\* chunks, the first track with or without an EndOfTrack
UnknownChunkFiles ==
    { HeaderBytes(1, 2, TicksDivision) \o u \o ChunkBytes(MTRK, Len(b), b)
        \o ChunkBytes(XYZQ, 1, <<9>>) \o ChunkBytes(MTRK, Len(c), c) :
        u \in { <<>>, ChunkBytes(XYZQ, 0, <<>>) },
        b \in ShortValidBodies \cup ShortOpenBodies, c \in ShortValidBodies }

DecodeFiles == OneTrackFiles \cup OddFiles \cup UnknownChunkFiles

InitRest ==
    /\ scan = NoScan
    /\ gen = NoGenerator
    /\ messages = <<>>
    /\ err = "none"
    /\ oob = FALSE
    /\ bytes = <<>>
    /\ enc = NoEnc
    /\ last = NoLast
    /\ first = NoFirst
    /\ input = 0
    /\ output = NoOutput
    /\ iter = NoIter

InitCommon ==
    /\ hdr = NoHeader
    /\ tracks = <<>>
    /\ InitRest

\* The round trip of a valid file: decode, encode, decode, encode
Init ==
    /\ pc = "start"
    /\ round = 1
    /\ \E f \in ValidFiles : mem = f /\ size = Len(f)
    /\ InitCommon

Spec == Init /\ [][Next]_vars

\* Decoding any buffer: MidiFile(data, size)
InitDecode ==
    /\ pc = "start"
    /\ round = 1
    /\ \E f \in DecodeFiles, b \in Beyond : mem = f \o b /\ size = Len(f)
    /\ InitCommon

SpecDecode == InitDecode /\ [][NextDecode]_vars

-----------------------------------------------------------------------------
(* The round trip: MidiFile(bytes), to_bytes(), MidiFile(bytes'), to_bytes() *)

\* The messages of a track as message equivalence compares them: stably
\* sorted by time, EndOfTrack excluded
Canonical(msgs) == stable_sort(copy_if(msgs))

\* C1: encoder fixed point.  For a valid file, bytes' = MidiFile(bytes).to_bytes()
\* decodes, and encoding the file decoded from bytes' gives bytes' again.
EncoderFixedPoint ==
    round = 2 => /\ pc # "failed"
                 /\ pc = "encoded" => bytes = first.bytes

\* C2: decode/encode/decode message equivalence.  For a valid file, the file
\* decoded from bytes' has as many tracks as the file decoded from bytes, and
\* each track holds the same messages (time, status byte, payload) once both
\* are stably sorted by time, EndOfTrack excluded.
MessageEquivalence ==
    round = 2 =>
        /\ pc # "failed"
        /\ pc = "decoded" =>
              /\ Len(tracks) = Len(first.tracks)
              /\ \A i \in 1..Len(tracks) :
                    i <= Len(first.tracks)
                    => Canonical(tracks[i]) = Canonical(first.tracks[i])

-----------------------------------------------------------------------------
(* Decoding any buffer *)

\* C3: bounds safety.  Whatever the buffer, the decode reads no byte at an
\* index >= size: neither one that lies behind the buffer nor one that faults.
BoundsSafety == ~oob /\ err # "fault"

\* The last generator step: where its status byte was, and the byte
LastStatusAt == read_variable_length(mem, last.pre.cursor).next
LastStatus == Rd(mem, LastStatusAt)

\* The last generator step decoded an event that carries its own status byte
\* and has a length in the table (common_msg handled it), and returned
LastIsFixedLength ==
    /\ last # NoLast
    /\ pc # "failed"
    /\ LastStatus >= 128
    /\ LastStatus \notin {240, 247, 255}
    /\ to_msg_type(LastStatus) # "Unknown"

\* C4: payload length of fixed-length events.  The message emitted for an
\* event with its own status byte holds fixed_length - 1 payload bytes, and
\* the cursor advances by fixed_length from the status byte.
FixedLengthPayload ==
    LastIsFixedLength =>
        LET len == get_msg_length(to_msg_type(LastStatus))
        IN  /\ Len(last.out.emit) = 1
            /\ Len(last.out.emit[1].data) = len - 1
            /\ last.out.g.cursor = LastStatusAt + len

-----------------------------------------------------------------------------
(* Encoding any file held in memory: MidiFile::to_bytes *)

\* The bound of the in-memory tracks
MaxMsgs == 3

\* Messages of a track in memory: voice messages of one status and one time,
\* Meta, SysEx and SysExEnd messages, EndOfTrack metas at two times
Msgs ==
    { Message(0, 144, <<60, 100>>),
      Message(0, 144, <<62, 100>>),
      Message(5, 128, <<60, 0>>),
      Message(0, 255, <<1, 1, 66>>),
      Message(5, 255, <<1, 1, 65>>),
      Message(0, 255, <<47, 0>>),
      Message(9, 255, <<47, 0>>),
      Message(5, 240, <<1, 247>>),
      Message(5, 247, <<1, 126>>) }

MemTracks == SeqsUpTo(Msgs, MaxMsgs)

ShortMemTracks == { t \in MemTracks : Len(t) <= 1 }

\* Files in memory: no track, one track, two tracks
MemFiles ==
    { <<>> } \cup { <<t>> : t \in MemTracks }
    \cup { <<t, u>> : t \in ShortMemTracks, u \in ShortMemTracks }

\* Headers in memory: ticks per quarter, or an SMPTE division
MemHeaders ==
    { [m_format |-> 1, m_divisionType |-> 0, m_ticksPerQuarter |-> 480],
      [m_format |-> 0, m_divisionType |-> 1, m_ticksPerQuarter |-> (128 - 25) * 256 + 40] }

InitEncode ==
    /\ pc = "decoded"
    /\ round = 1
    /\ mem = <<>>
    /\ size = 0
    /\ \E ts \in MemFiles, h \in MemHeaders : tracks = ts /\ hdr = h
    /\ InitRest

SpecEncode == InitEncode /\ [][NextEncode]_vars

\* The chunks of an encoded file from index c on: [begin, end) of each
RECURSIVE Chunks(_, _)
Chunks(b, c) ==
    IF c + 8 > Len(b) THEN <<>>
    ELSE LET end == c + 8 + read_msb_bytes(b, c + 4, 4)
         IN  <<[id |-> Slice(b, c, 4), begin |-> c, end |-> end]>> \o Chunks(b, end)

\* The track chunks of the bytes to_bytes() returned
TrackChunks == Chunks(bytes, HEADER_LENGTH)

\* Every track chunk of the output ends with the four bytes `tail`, and there
\* is a chunk for every track
EveryChunkEndsWith(tail) ==
    pc = "encoded" =>
        /\ Len(TrackChunks) = Len(tracks)
        /\ \A i \in 1..Len(TrackChunks) :
              /\ TrackChunks[i].id = MTRK
              /\ TrackChunks[i].end <= Len(bytes)
              /\ TrackChunks[i].end - TrackChunks[i].begin >= 12
              /\ Slice(bytes, TrackChunks[i].end - 4, 4) = tail

\* C5, as stated: after to_bytes(), every track chunk ends with the four
\* bytes 00 FF 2F 00 (delta 0, Meta, EndOfTrack, length 0).
ChunkEndsWithDelta0Eot == EveryChunkEndsWith(<<0, 255, 47, 0>>)

\* C5, amended: after to_bytes(), every track chunk ends with the four
\* bytes 01 FF 2F 00 (delta 1, Meta, EndOfTrack, length 0).
ChunkEndsWithDelta1Eot == EveryChunkEndsWith(<<1, 255, 47, 0>>)

\* C5, witness: to_bytes() returned a file of two track chunks
TwoChunksEncoded == pc = "encoded" /\ Len(TrackChunks) = 2

IsEndOfTrackEvent(e) == e.statusByte = 255 /\ e.data # <<>> /\ e.data[1] = 47

EndOfTrackCount(events) ==
    Cardinality({ j \in 1..Len(events) : IsEndOfTrackEvent(events[j]) })

\* C6: exactly one EndOfTrack per encoded track.  Whatever EndOfTrack metas
\* the track in memory holds, the chunk to_bytes() writes for it holds exactly
\* one EndOfTrack event, and it is the last event of the chunk.
OneEndOfTrackPerChunk ==
    pc = "encoded" =>
        /\ Len(enc.written) = Len(tracks)
        /\ \A i \in 1..Len(enc.written) :
              /\ EndOfTrackCount(enc.written[i]) = 1
              /\ IsEndOfTrackEvent(enc.written[i][Len(enc.written[i])])

\* C6, witness: a track holding two EndOfTrack metas and another message
\* behind them has been encoded
TwoEndOfTracksEncoded ==
    /\ pc = "encoded"
    /\ \E i \in 1..Len(tracks) :
          /\ EndOfTrackCount(tracks[i]) = 2
          /\ ~IsEndOfTrackEvent(tracks[i][Len(tracks[i])])

NeverRuns == {240, 247, 255}

\* C7: running-status safety of the encoder.  Every message whose status is
\* FF, F0 or F7 is written as its delta, its status byte and its data,
\* whatever the status of the message written before it.
SpecialStatusWritten ==
    [][ (pc = "write_msg" /\ enc'.msg = enc.msg + 1
         /\ enc.tracks[enc.track][enc.msg].statusByte \in NeverRuns)
        => LET msg == enc.tracks[enc.track][enc.msg]
           IN  bytes' = bytes \o write_variable_length(DeltaTime(msg.time, enc.prevTime))
                              \o <<msg.statusByte>> \o msg.data ]_vars

\* C7, witness: a message of one of these statuses has been written right
\* behind a message of the same status
SameSpecialStatusTwice ==
    /\ pc = "write_msg"
    /\ enc.msg > 2
    /\ enc.tracks[enc.track][enc.msg - 1].statusByte \in NeverRuns
    /\ enc.tracks[enc.track][enc.msg - 1].statusByte
         = enc.tracks[enc.track][enc.msg - 2].statusByte

\* The messages of msgs at time tm, in their order
AtTime(msgs, tm) ==
    LET at(msg) == msg.time = tm IN SelectSeq(msgs, at)

\* The messages of msgs that are no EndOfTrack meta, in their order
WithoutEndOfTrack(msgs) ==
    LET keep(msg) == ~IsEndOfTrackEvent(msg) IN SelectSeq(msgs, keep)

Times(msgs) == { msgs[j].time : j \in 1..Len(msgs) }

\* C8: Track::sort returns the messages of the track that are no EndOfTrack,
\* in non-decreasing time order, those of one time in the order they had.
SortIsStable ==
    pc # "decoded" =>
        /\ Len(enc.tracks) = Len(tracks)
        /\ \A i \in 1..Len(enc.tracks) :
              LET r == enc.tracks[i]
                  t == WithoutEndOfTrack(tracks[i])
              IN  /\ Len(r) = Len(t)
                  /\ \A j \in 1..(Len(r) - 1) : r[j].time <= r[j + 1].time
                  /\ \A tm \in Times(t) \cup Times(r) : AtTime(r, tm) = AtTime(t, tm)

\* C8, witness: a track out of time order, with two different messages of
\* one time, has been sorted
UnsortedTieSorted ==
    /\ pc = "write_head"
    /\ \E i \in 1..Len(tracks) :
          /\ ~is_sorted(tracks[i])
          /\ \E j, k \in 1..Len(tracks[i]) :
                /\ j < k
                /\ tracks[i][j].time = tracks[i][k].time
                /\ tracks[i][j] # tracks[i][k]
                /\ ~IsEndOfTrackEvent(tracks[i][j])
                /\ ~IsEndOfTrackEvent(tracks[i][k])

-----------------------------------------------------------------------------
(* The variable-length codec on its own: write_variable_length, then        *)
(* read_variable_length over the bytes written                               *)

\* The bound of the values: the powers of two up to 2^MaxShift
MaxShift == 29

\* Values around every power of two, which include the limits of the four
\* lengths and values past 0x0FFFFFFF
VlqValues ==
    UNION { { 2 ^ k - 1, 2 ^ k, 2 ^ k + 1, 2 ^ k + 2 ^ (k \div 2) } : k \in 0..MaxShift }

\* What lies behind the bytes written
VlqTails == { <<>>, <<255, 129>> }

InitVlq ==
    /\ pc = "vlq"
    /\ round = 1
    /\ mem = <<>>
    /\ size = 0
    /\ hdr = NoHeader
    /\ tracks = <<>>
    /\ scan = NoScan
    /\ gen = NoGenerator
    /\ messages = <<>>
    /\ err = "none"
    /\ oob = FALSE
    /\ bytes = <<>>
    /\ enc = NoEnc
    /\ last = NoLast
    /\ first = NoFirst
    /\ output = NoOutput
    /\ iter = NoIter
    /\ input \in VlqValues

\* write_variable_length(bytes, input)
WriteVlq ==
    /\ pc = "vlq"
    /\ bytes' = write_variable_length(input)
    /\ pc' = "vlq_written"
    /\ UNCHANGED <<mem, size, hdr, scan, gen, messages, tracks, err, oob, enc, last,
                   round, first, input, output, iter>>

\* read_variable_length(cursor) with the cursor at the first byte written
ReadVlq ==
    /\ pc = "vlq_written"
    /\ \E tail \in VlqTails :
          /\ mem' = bytes \o tail
          /\ size' = Len(bytes \o tail)
          /\ output' = read_variable_length(bytes \o tail, 0)
    /\ pc' = "vlq_read"
    /\ UNCHANGED <<hdr, scan, gen, messages, tracks, err, oob, bytes, enc, last, round,
                   first, input, iter>>

NextVlq == WriteVlq \/ ReadVlq

SpecVlq == InitVlq /\ [][NextVlq]_vars

\* C9: VLQ round trip.  For v <= 0x0FFFFFFF, write_variable_length(v) emits
\* calc_variable_length(v) bytes (1 below 0x80, 2 below 0x4000, 3 below
\* 0x200000, else 4), all but the last with the high bit set, and
\* read_variable_length over them returns v with the cursor past them.
VlqRoundTrip ==
    (pc \in {"vlq_written", "vlq_read"} /\ input <= 2 ^ 28 - 1) =>
        /\ Len(bytes) = calc_variable_length(input)
        /\ Len(bytes) = (IF input < 128 THEN 1 ELSE IF input < 16384 THEN 2
                         ELSE IF input < 2097152 THEN 3 ELSE 4)
        /\ \A i \in 1..(Len(bytes) - 1) : bytes[i] >= 128
        /\ bytes[Len(bytes)] < 128
        /\ pc = "vlq_read" => output = [value |-> input, next |-> Len(bytes)]

\* C9, witness: 0x0FFFFFFF has been written as four bytes and read back,
\* with other bytes behind them
VlqMaxRead ==
    pc = "vlq_read" /\ input = 2 ^ 28 - 1 /\ Len(bytes) = 4 /\ Len(mem) > 4

-----------------------------------------------------------------------------
(* The header decoder on its own: MidiHeader(data, size)                     *)

\* The bound of the sizes: the header buffers are cut by up to MaxShort bytes
MaxShort == 2

HeaderMagics == { MTHD, MTRK, <<77, 84, 104, 0>> }
HeaderLengths == { <<0, 0, 0, 6>>, <<0, 0, 0, 5>>, <<0, 0, 0, 7>>, <<0, 0, 1, 6>>,
                   <<6, 0, 0, 0>>, <<128, 0, 0, 6>> }
HeaderFormats == { <<0, 0>>, <<0, 1>>, <<0, 2>>, <<0, 3>>, <<1, 0>>, <<1, 1>>, <<255, 255>> }

\* 14 bytes in the place of a header, for no track
HeaderBuffers ==
    { m \o l \o f \o <<0, 0>> \o write_msb_bytes(d, 2) :
        m \in HeaderMagics, l \in HeaderLengths, f \in HeaderFormats,
        d \in {TicksDivision, SmpteDivision} }

\* The buffer is the first `size` of these bytes, or all of them with stray
\* bytes behind; what is cut off the buffer still lies in memory
InitHeader ==
    /\ pc = "start"
    /\ round = 1
    /\ \E h \in HeaderBuffers, cut \in 0..MaxShort, stray \in {<<>>, <<7>>} :
          /\ mem = h \o stray
          /\ size = IF cut = 0 THEN Len(h \o stray) ELSE Len(h) - cut
    /\ InitCommon

SpecHeader == InitHeader /\ [][DecodeHeader]_vars

\* The four ways a buffer is no header, read off the bytes
ShorterThanHeader == size < 14
NotMThd == Slice(mem, 0, 4) # <<77, 84, 104, 100>>
LengthNot6 == Slice(mem, 4, 4) # <<0, 0, 0, 6>>
FormatNot012 == Slice(mem, 8, 2) \notin { <<0, 0>>, <<0, 1>>, <<0, 2>> }

\* C10: header decoding fails with the invalid-header error, and nothing is
\* produced, when the buffer is shorter than 14 bytes, or does not begin
\* with MThd, or its length field is not 6, or its format is not 0, 1 or 2;
\* for every other buffer the header decodes.
HeaderFailsExactly ==
    pc # "start" =>
        IF ShorterThanHeader \/ NotMThd \/ LengthNot6 \/ FormatNot012
        THEN pc = "failed" /\ err = "InvalidHeader" /\ hdr = NoHeader /\ tracks = <<>>
        ELSE /\ pc = "scan"
             /\ err = "none"
             /\ hdr.m_format = Rd(mem, 9)
             /\ scan.cursor = 14
             /\ scan.bufferEnd = size

\* C10, witness: a buffer of 14 bytes or more with MThd and length 6 has
\* been refused for its format
RefusedForFormat ==
    /\ pc = "failed"
    /\ err = "InvalidHeader"
    /\ ~ShorterThanHeader /\ ~NotMThd /\ ~LengthNot6
    /\ FormatNot012

-----------------------------------------------------------------------------
(* The chunk scanner *)

\* C11: chunk bounds.  A chunk whose declared length puts its end beyond
\* buffer_end makes the decode fail: the scanner's cursor never passes
\* buffer_end, and the TrackView it yields ends inside the buffer.
ChunkInsideBuffer ==
    /\ pc \in {"scan", "chunk", "gen", "decoded"} => scan.cursor <= scan.bufferEnd
    /\ pc = "gen" => gen.bufferEnd <= size


\* The caller's buffer, and its chunks behind the header as their declared
\* lengths delimit them
Buffer == SubSeq(mem, 1, size)
BufferChunks == Chunks(Buffer, HEADER_LENGTH)
MTrkChunks == SelectSeq(BufferChunks, LAMBDA c : c.id = MTRK)

\* Every chunk of the buffer ends inside it (fewer than 8 stray bytes may follow)
ChunksFit == \A i \in 1..Len(BufferChunks) : BufferChunks[i].end <= size

\* The decode failed in the scanner, not in the events of a track: the
\* generator of the last track, if any, had finished
ScannerFailed == pc = "failed" /\ err # "InvalidHeader" /\ done(gen)

\* The header declares more tracks than the buffer has MTrk chunks
OverDeclared ==
    /\ pc # "start"
    /\ err # "InvalidHeader"
    /\ ChunksFit
    /\ Rd(mem, 10) * 256 + Rd(mem, 11) > Len(MTrkChunks)

\* C12: over-declared track count.  The iteration yields the MTrk chunks of
\* the buffer in order and then ends: the scanner does not fail, every track
\* it yields is an MTrk chunk of the buffer, and the file has that many tracks.
OverDeclaredCountEnds ==
    OverDeclared =>
        /\ ~ScannerFailed
        /\ pc = "gen" =>
              /\ Len(tracks) < Len(MTrkChunks)
              /\ gen.bufferEnd = MTrkChunks[Len(tracks) + 1].end
        /\ pc = "decoded" => Len(tracks) = Len(MTrkChunks)


\* The unknown chunks of the buffer
UnknownChunks == SelectSeq(BufferChunks, LAMBDA c : c.id # MTRK)

\* The generator has not decoded an event yet
FreshGenerator == pc = "gen" /\ messages = <<>> /\ ~gen.foundEOT /\ gen.tickOffset = 0
                  /\ gen.prevEventLen = 0

\* The last generator step emitted a message with a payload: the indices
\* [from, to) its payload was copied from
LastEmitted == pc = "gen" /\ last # NoLast /\ last.out.emit # <<>>
LastPayloadTo == last.out.hi
LastPayloadFrom == last.out.hi - Len(last.out.emit[1].data)

\* C13: unknown-chunk skipping.  In a well-formed buffer with unknown chunks
\* before and between the MTrk chunks, the scanner does not fail, it yields
\* the MTrk chunks in order, each TrackView covering that chunk's body, and
\* no payload byte of a decoded message comes from an unknown chunk.
SkipsUnknownChunks ==
    (pc # "start" /\ Buffer \in UnknownChunkFiles) =>
        /\ ~ScannerFailed
        /\ FreshGenerator =>
              /\ Len(tracks) < Len(MTrkChunks)
              /\ gen.cursor = MTrkChunks[Len(tracks) + 1].begin + 8
              /\ gen.bufferEnd = MTrkChunks[Len(tracks) + 1].end
        /\ pc = "decoded" => Len(tracks) = Len(MTrkChunks)
        /\ LastEmitted =>
              \A i \in 1..Len(UnknownChunks) :
                 \/ LastPayloadTo <= UnknownChunks[i].begin
                 \/ LastPayloadFrom >= UnknownChunks[i].end
                 \/ LastPayloadFrom = LastPayloadTo

-----------------------------------------------------------------------------
(* The generator's running status *)

\* `last` is a step of the generator of the current track, which either
\* returned (pc = "gen") or threw
AfterGeneratorStep ==
    /\ last # NoLast
    /\ last.pre.bufferEnd = gen.bufferEnd
    /\ pc = "gen" \/ (pc = "failed" /\ ~done(gen))

\* The messages the track held before that step
MessagesBefore ==
    IF pc = "gen" THEN SubSeq(messages, 1, Len(messages) - Len(last.out.emit))
    ELSE messages

\* The step met a data byte in status position, inside the chunk and the buffer
DataByteInStatusPosition ==
    /\ AfterGeneratorStep
    /\ LastStatusAt < last.pre.bufferEnd
    /\ last.pre.bufferEnd <= size
    /\ LastStatus < 128

\* No status-carrying event had been decoded: the track held Meta messages only
OnlyMetaBefore == \A i \in 1..Len(MessagesBefore) : MessagesBefore[i].statusByte = 255

\* C14: a data byte in status position when no status-carrying event has
\* been decoded yet in the track makes the decode fail as corrupted, and no
\* message is emitted for it.
NoStatusIsCorrupted ==
    (DataByteInStatusPosition /\ OnlyMetaBefore) =>
        /\ pc = "failed"
        /\ err = "Corrupted"
        /\ last.out.emit = <<>>

\* C14, witness: a data byte in status position behind a Meta message has
\* been refused
DataByteAfterMetaRefused ==
    /\ DataByteInStatusPosition
    /\ OnlyMetaBefore
    /\ Len(MessagesBefore) > 0
    /\ err = "Corrupted"


\* The messages of msgs that are no Meta, in their order
StatusCarrying(msgs) == SelectSeq(msgs, LAMBDA msg : msg.statusByte # 255)

\* The last status-carrying event decoded before the step was a SysEx or a
\* system-common event
SystemStatusBefore ==
    LET sc == StatusCarrying(MessagesBefore)
    IN  sc # <<>> /\ sc[Len(sc)].statusByte \in 240..247

\* C15: running status is cleared by SysEx and system-common events.  A
\* data byte in status position right after one of them (Meta events in
\* between not counting) is rejected as corrupted and no message is emitted.
SystemStatusClearsRunning ==
    (DataByteInStatusPosition /\ SystemStatusBefore) =>
        /\ pc = "failed"
        /\ err = "Corrupted"
        /\ last.out.emit = <<>>


\* The event at the last step's status byte read as status, VLQ length N,
\* N bytes: where it ends
LastSysExShapeEnd ==
    LET vl == read_variable_length(mem, LastStatusAt + 1) IN vl.next + vl.value

\* The step met the status byte 0xF7 with such an event whole inside the
\* chunk and the buffer
SysExEndInside ==
    /\ AfterGeneratorStep
    /\ LastStatus = 247
    /\ LastStatusAt < last.pre.bufferEnd
    /\ LastSysExShapeEnd <= last.pre.bufferEnd
    /\ last.pre.bufferEnd <= size

\* C16: an event whose status byte is 0xF7 is decoded as a SysEx-shaped
\* event: one message of status 0xF7 holding the VLQ length N and the N
\* bytes, with the cursor past all N bytes.
SysExEndIsSysExShaped ==
    SysExEndInside =>
        /\ pc = "gen"
        /\ last.out.emit = <<Message(last.out.g.tickOffset, 247,
                                     Slice(mem, LastStatusAt + 1,
                                           LastSysExShapeEnd - LastStatusAt - 1))>>
        /\ last.out.g.cursor = LastSysExShapeEnd

-----------------------------------------------------------------------------
(* One track chunk on its own: the owning Track(view) and the iteration of   *)
(* a TrackView, `for (msg : view)`                                           *)

\* An advance that marks the end as soon as the generator is done
advance_marks_done(m, g, msg) ==
    IF ~done(g)
    THEN LET out == emplace_using(m, g)
         IN  [g |-> [out.g EXCEPT !.foundEOT = out.g.foundEOT \/ done(out.g)],
              msg |-> IF out.emit # <<>> THEN out.emit[1] ELSE msg,
              stepped |-> TRUE, out |-> out]
    ELSE [g |-> [g EXCEPT !.foundEOT = TRUE], msg |-> msg,
          stepped |-> FALSE, out |-> Outcome(g, <<>>, "none", 0)]

\* TrackView::iterator::advance: the generator, msg and what the step read
advance(m, g, msg) ==
    IF ~done(g)
    THEN LET out == emplace_using(m, g)
         IN  [g |-> out.g, msg |-> IF out.emit # <<>> THEN out.emit[1] ELSE msg,
              stepped |-> TRUE, out |-> out]
    ELSE [g |-> [g EXCEPT !.foundEOT = TRUE], msg |-> msg,
          stepped |-> FALSE, out |-> Outcome(g, <<>>, "none", 0)]

\* The iterator with generator g advances
Advances(g) ==
    LET a == advance(mem, g, iter.msg)
    IN  /\ Reads(a.out.hi)
        /\ last' = IF a.stepped THEN [pre |-> g, out |-> a.out] ELSE last
        /\ IF Fault(mem, a.out)
           THEN Fail("fault") /\ gen' = g /\ iter' = iter
           ELSE IF a.out.err # "none"
           THEN Fail(a.out.err) /\ gen' = g /\ iter' = iter
           ELSE /\ gen' = a.g
                /\ iter' = [iter EXCEPT !.msg = a.msg]
                /\ pc' = "view_test"
                /\ err' = err

\* TrackView::begin(): iterator(cursor, size), which advances once
ViewBegin ==
    /\ pc = "view"
    /\ Advances(MessageGenerator(0, size))
    /\ UNCHANGED <<mem, size, hdr, scan, messages, tracks, bytes, enc, round, first,
                   input, output>>

\* it != end(): operator!= is !foundEOT
ViewTest ==
    /\ pc = "view_test"
    /\ pc' = IF gen.foundEOT THEN "view_end" ELSE "view_body"
    /\ UNCHANGED <<mem, size, hdr, scan, gen, messages, tracks, err, oob, bytes, enc,
                   last, round, first, input, output, iter>>

\* The body of the loop takes *it
ViewBody ==
    /\ pc = "view_body"
    /\ messages' = Append(messages, iter.msg)
    /\ pc' = "view_inc"
    /\ UNCHANGED <<mem, size, hdr, scan, gen, tracks, err, oob, bytes, enc, last, round,
                   first, input, output, iter>>

\* ++it
ViewInc ==
    /\ pc = "view_inc"
    /\ Advances(gen)
    /\ UNCHANGED <<mem, size, hdr, scan, messages, tracks, bytes, enc, round, first,
                   input, output>>

NextView == ViewBegin \/ ViewTest \/ ViewBody \/ ViewInc \/ Emplace \/ TrackDone

\* es is of the SMF grammar up to its first EndOfTrack; what follows an
\* EndOfTrack inside the chunk is anything
ValidUntilEndOfTrack(es) ==
    \A i \in 1..Len(es) :
        (\A j \in 1..(i - 1) : es[j].kind # "eot") =>
            /\ es[i].kind = "run3" => RunningKind(SubSeq(es, 1, i - 1)) = "voice3"
            /\ es[i].kind = "run2" => RunningKind(SubSeq(es, 1, i - 1)) = "voice2"

ViewEvents == { es \in SeqsUpTo(Events, MaxEvents) : ValidUntilEndOfTrack(es) }

\* The buffer is the body of one chunk; the events it was built from are
\* kept in `input`.  The chunk is either iterated as a TrackView or decoded
\* by Track(view.cursor, view.size), whose generator is constructed.
InitView ==
    /\ pc \in {"view", "gen"}
    /\ round = 1
    /\ \E es \in ViewEvents, b \in Beyond :
          /\ input = es
          /\ mem = Wire(es) \o b
          /\ size = Len(Wire(es))
    /\ gen = IF pc = "gen" THEN MessageGenerator(0, size) ELSE NoGenerator
    /\ hdr = NoHeader
    /\ tracks = <<>>
    /\ scan = NoScan
    /\ messages = <<>>
    /\ err = "none"
    /\ oob = FALSE
    /\ bytes = <<>>
    /\ enc = NoEnc
    /\ last = NoLast
    /\ first = NoFirst
    /\ output = NoOutput
    /\ iter = NoIter

SpecView == InitView /\ [][NextView]_vars


\* The last generator step returned from an EndOfTrack: status 0xFF, type 0x2F
LastWasEndOfTrack ==
    /\ last # NoLast
    /\ pc # "failed"
    /\ LastStatus = 255
    /\ Rd(mem, LastStatusAt + 1) = 47

\* No message taken from the chunk, by the Track or through the iterator,
\* is an EndOfTrack; the step that decodes one emits nothing and leaves the
\* generator done, the iterator equal to end()
EndOfTrackNotEmitted ==
    /\ \A i \in 1..Len(messages) : ~IsEndOfTrackEvent(messages[i])
    /\ \A t \in 1..Len(tracks) : \A i \in 1..Len(tracks[t]) :
          ~IsEndOfTrackEvent(tracks[t][i])
    /\ LastWasEndOfTrack =>
          /\ last.out.emit = <<>>
          /\ last.out.g.foundEOT
          /\ done(last.out.g)
          /\ gen = last.out.g
    /\ gen.foundEOT => done(gen) /\ pc \notin {"view_body", "view_inc"}

\* Once EndOfTrack is found, nothing more is decoded or yielded
EndOfTrackIsLast ==
    gen.foundEOT => (gen' = gen /\ messages' = messages /\ iter' = iter /\ last' = last)

\* C17: EndOfTrack halts the track.  Once the generator decodes a Meta event
\* of type 0x2F it is done, the EndOfTrack is not emitted as a message
\* (neither into the Track nor through the TrackView iterator, which then
\* equals end()), and no byte behind it in the chunk is decoded.
EndOfTrackHalts == []EndOfTrackNotEmitted /\ [][EndOfTrackIsLast]_vars

\* C17, witness: an EndOfTrack with bytes behind it in the chunk and a
\* message before it has been decoded, and the track or the iteration ended
EndOfTrackBeforeBytes ==
    /\ pc \in {"scan", "view_end"}
    /\ LastWasEndOfTrack
    /\ LastStatusAt + 3 < size
    /\ Len(messages) > 0


\* What the SMF grammar reads in a wire event: its delta, whether it has a
\* status byte, the bytes behind the delta
WireDeltaLen(e) == IF e.wire[1] >= 128 THEN 2 ELSE 1
WireDelta(e) == IF e.wire[1] >= 128 THEN (e.wire[1] - 128) * 128 + e.wire[2] ELSE e.wire[1]
WireHasStatus(e) == e.kind \notin {"run3", "run2"}
WireBody(e) == SubSeq(e.wire, WireDeltaLen(e) + 1, Len(e.wire))

\* The messages of the events es in byte order, from absolute time `time`
\* and running status `status` (kept by Meta, cleared by SysEx and system
\* messages): the payload is what follows the status byte
RECURSIVE ExpectedMessages(_, _, _)
ExpectedMessages(es, time, status) ==
    IF es = <<>> THEN <<>>
    ELSE LET e == Head(es)
             t == time + WireDelta(e)
             st == IF WireHasStatus(e) THEN WireBody(e)[1] ELSE status
             payload == IF WireHasStatus(e) THEN Tail(WireBody(e)) ELSE WireBody(e)
             running == IF e.kind \in {"meta", "eot"} THEN status
                        ELSE IF e.kind \in {"voice3", "run3", "voice2", "run2"} THEN st
                        ELSE 0
         IN  <<Message(t, st, payload)>> \o ExpectedMessages(Tail(es), t, running)

IsPrefix(s, t) == Len(s) <= Len(t) /\ s = SubSeq(t, 1, Len(s))

\* The chunk was built from events of the SMF grammar with no EndOfTrack,
\* which fill it exactly
OpenTrack == \A i \in 1..Len(input) : input[i].kind # "eot"

\* C18: a track chunk whose events fill the declared length exactly, with
\* no EndOfTrack, decodes without error: its events are emitted in byte
\* order, and then the generator is done and the iterator equals end().
OpenTrackDecodes ==
    OpenTrack =>
        LET expected == ExpectedMessages(input, 0, 0)
        IN  /\ pc # "failed"
            /\ IsPrefix(messages, expected)
            /\ pc \in {"scan", "view_end"} => messages = expected
            /\ (pc = "gen" /\ done(gen)) => messages = expected

-----------------------------------------------------------------------------
(* The header's division *)

\* C19: the encoder cannot fail on semantic grounds.  to_bytes() on the file
\* decoded from a valid buffer of either division kind returns, and the two
\* division bytes it writes are those of the buffer decoded.
EncoderNeverFails ==
    round = 1 =>
        /\ err # "runtime_error"
        /\ pc = "encoded" => Slice(bytes, 12, 2) = Slice(mem, 12, 2)


\* How the build lays the bit-fields of a uint16_t out: from the least
\* significant bit (little-endian ABIs) or from the most significant one
BitFieldLayouts == {"lsb_first", "msb_first"}

\* The union of MidiHeader read through its second struct: m_negativeSmpte
\* (7 bits) and m_ticksPerFrame (8 bits) share the 15 bits of m_ticksPerQuarter
m_negativeSmpte(h, layout) ==
    IF layout = "lsb_first" THEN h.m_ticksPerQuarter % 128
    ELSE h.m_ticksPerQuarter \div 256

m_ticksPerFrame(h, layout) ==
    IF layout = "lsb_first" THEN (h.m_ticksPerQuarter \div 128) % 256
    ELSE h.m_ticksPerQuarter % 256

\* ~x of an int
BitNot(x) == 0 - x - 1

\* MidiHeader::division_type
division_type(h) == h.m_divisionType

\* MidiHeader::ticks_per_quarter
ticks_per_quarter(h) == IF h.m_divisionType = 0 THEN h.m_ticksPerQuarter ELSE "runtime_error"

\* MidiHeader::frame_per_second: (~(m_negativeSmpte - 1)) & 0x3F
frame_per_second(h, layout) ==
    IF h.m_divisionType # 0 THEN BitNot(m_negativeSmpte(h, layout) - 1) % 64
    ELSE "runtime_error"

\* MidiHeader::ticks_per_frame
ticks_per_frame(h, layout) ==
    IF h.m_divisionType # 0 THEN m_ticksPerFrame(h, layout) ELSE "runtime_error"

\* The accessors of the division called on the header decoded
ReadDivision ==
    /\ pc = "scan"
    /\ \E layout \in BitFieldLayouts :
          output' = [division_type |-> division_type(hdr),
                     ticks_per_quarter |-> ticks_per_quarter(hdr),
                     ticks_per_frame |-> ticks_per_frame(hdr, layout),
                     frame_per_second |-> frame_per_second(hdr, layout)]
    /\ pc' = "division_read"
    /\ UNCHANGED <<mem, size, hdr, scan, gen, messages, tracks, err, oob, bytes, enc,
                   last, round, first, input, iter>>

\* The two bytes of division words: both kinds, the ends of every field
DivisionHighBytes == {0, 1, 127, 128, 129, 192, 226, 227, 231, 232, 255}
DivisionLowBytes == {0, 1, 40, 80, 127, 128, 255}

InitDivision ==
    /\ pc = "start"
    /\ round = 1
    /\ \E hi \in DivisionHighBytes, lo \in DivisionLowBytes, f \in {0, 1} :
          /\ mem = MTHD \o <<0, 0, 0, 6>> \o <<0, f, 0, 0>> \o <<hi, lo>>
          /\ size = HEADER_LENGTH
    /\ InitCommon

SpecDivision == InitDivision /\ [][DecodeHeader \/ ReadDivision]_vars

\* C20: division decoding.  For the word w of bytes 12-13, division_type()
\* is bit 15 of w; if it is 0, ticks_per_quarter() is the low 15 bits of w;
\* if it is 1, ticks_per_frame() is byte 13 and frame_per_second() is
\* (~(n - 1)) & 0x3F for n the low 7 bits of byte 12.
DivisionDecoded ==
    pc = "division_read" =>
        LET b12 == Rd(mem, 12)
            b13 == Rd(mem, 13)
            n == b12 % 128
        IN  /\ output.division_type = b12 \div 128
            /\ b12 < 128 => output.ticks_per_quarter = n * 256 + b13
            /\ b12 >= 128 =>
                  /\ output.ticks_per_frame = b13
                  /\ output.frame_per_second = (64 - (n % 64)) % 64


-----------------------------------------------------------------------------
(* messages::KeySignature *)

\* static_cast<uint8_t>(v) of an int8_t, and the int8_t read back from a byte
ToUint8(v) == v % 256
ToInt8(b) == IF b >= 128 THEN b - 256 ELSE b

\* KeySignature(time, key, tonality): a Meta whose data is type, 2, key, tonality
KeySignature(time, key, tonality) ==
    Message(time, 255, <<89, 2, ToUint8(key), tonality>>)

\* KeySignature::key, KeySignature::tonality (m_data[2], m_data[3])
key(msg) == ToInt8(msg.data[3])
tonality(msg) == msg.data[4]

\* KEYS_NAME: an array of 32 pointers of which 30 are initialised; the last
\* two are null
KEYS_NAME ==
    <<"bC", "bG", "bD", "bA", "bE", "bB", "F", "C", "G", "D", "A", "E", "B", "#F", "#C",
      "bc", "bg", "bd", "ba", "be", "bb", "f", "c", "g", "d", "a", "e", "b", "#f", "#c",
      "nullptr", "nullptr">>

\* What a std::string built from a null pointer may do: throw (libstdc++) or
\* read through the null pointer
NullStringOutcomes == {"logic_error", "fault"}

Named(n) == [name |-> n, err |-> "none"]
NameFails(e) == [name |-> "", err |-> e]

\* KeySignature::name: KEYS_NAME.at(key() + 7 + tonality() * 12), every
\* outcome it may have
name(msg) ==
    LET index == key(msg) + 7 + tonality(msg) * 12
    IN  IF index < 0 \/ index >= Len(KEYS_NAME) THEN {NameFails("out_of_range")}
        ELSE IF KEYS_NAME[index + 1] = "nullptr"
             THEN {NameFails(e) : e \in NullStringOutcomes}
             ELSE {Named(KEYS_NAME[index + 1])}

\* The constructor called with the arguments drawn
ConstructKeySignature ==
    /\ pc = "key"
    /\ messages' = <<KeySignature(0, input.key, input.tonality)>>
    /\ pc' = "key_built"
    /\ UNCHANGED <<mem, size, hdr, scan, gen, tracks, err, oob, bytes, enc,
                   last, round, first, input, output, iter>>

\* name() called on the message built
KeyName ==
    /\ pc = "key_built"
    /\ \E r \in name(messages[1]) : output' = r
    /\ pc' = "key_named"
    /\ UNCHANGED <<mem, size, hdr, scan, gen, messages, tracks, err, oob, bytes, enc,
                   last, round, first, input, iter>>

\* Every key an int8_t holds, tonality bytes in and out of {0, 1}
KeyArguments == -128 .. 127
TonalityArguments == {0, 1, 2, 3, 255}

InitKey ==
    /\ pc = "key"
    /\ round = 1
    /\ mem = <<>>
    /\ size = 0
    /\ hdr = NoHeader
    /\ tracks = <<>>
    /\ scan = NoScan
    /\ gen = NoGenerator
    /\ messages = <<>>
    /\ err = "none"
    /\ oob = FALSE
    /\ bytes = <<>>
    /\ enc = NoEnc
    /\ last = NoLast
    /\ first = NoFirst
    /\ output = NoOutput
    /\ iter = NoIter
    /\ \E k \in KeyArguments, t \in TonalityArguments : input = [key |-> k, tonality |-> t]

SpecKey == InitKey /\ [][ConstructKeySignature \/ KeyName]_vars

\* The name table of 30 entries: major names at 0..14, minor names at 15..29
NameTable == SubSeq(KEYS_NAME, 1, 30)

\* C21: for every key in -7..7 and tonality in {0, 1}, name() returns the
\* entry at index key + 7 + tonality * 15 of the 30-element name table.
KeyNameIndexed ==
    (/\ pc = "key_named"
     /\ key(messages[1]) \in -7 .. 7
     /\ tonality(messages[1]) \in {0, 1})
    => output = Named(NameTable[key(messages[1]) + 7 + tonality(messages[1]) * 15 + 1])

\* C22: for every stored tonality byte other than 0 or 1, whatever the key
\* byte, name() fails with an out-of-range error and returns no name.
BadTonalityOutOfRange ==
    (pc = "key_named" /\ tonality(messages[1]) \notin {0, 1})
    => output = NameFails("out_of_range")


-----------------------------------------------------------------------------
(* messages::SysEx *)

\* SysEx(time, data): Message<T>() leaves statusByte at its default 0; m_data
\* is the length of data as a VLQ, data, and `status` (0xF0) as the last byte
SysEx(time, data) ==
    [time |-> time, statusByte |-> 0,
     data |-> write_variable_length(Len(data)) \o data \o <<240>>]

\* The bound of the data of a SysEx
MaxSysEx == 2

SysExData == SeqsUpTo({0, 1, 126, 247}, MaxSysEx)

\* The messages of the track before the SysEx
SysExBefore == { <<>>, <<Message(0, 144, <<60, 100>>)>> }

\* The constructor called, the message appended to the only track of a file
ConstructSysEx ==
    /\ pc = "sysex"
    /\ tracks' = <<Append(input.before, SysEx(input.time, input.data))>>
    /\ pc' = "decoded"
    /\ UNCHANGED <<mem, size, hdr, scan, gen, messages, err, oob, bytes, enc,
                   last, round, first, input, output, iter>>

InitSysEx ==
    /\ pc = "sysex"
    /\ round = 1
    /\ \E b \in Beyond : mem = b
    /\ size = 0
    /\ hdr = [m_format |-> 1, m_divisionType |-> 0, m_ticksPerQuarter |-> 480]
    /\ tracks = <<>>
    /\ scan = NoScan
    /\ gen = NoGenerator
    /\ messages = <<>>
    /\ err = "none"
    /\ oob = FALSE
    /\ bytes = <<>>
    /\ enc = NoEnc
    /\ last = NoLast
    /\ first = NoFirst
    /\ output = NoOutput
    /\ iter = NoIter
    /\ \E t \in {5, 9}, d \in SysExData, m \in SysExBefore :
          input = [time |-> t, data |-> d, before |-> m]

\* The file holding the SysEx encoded, then decoded, then encoded again
NextSysEx ==
    \/ ConstructSysEx
    \/ NextEncode
    \/ Reload
    \/ DecodeHeader \/ Advance \/ NextTrack \/ Emplace \/ TrackDone

SpecSysEx == InitSysEx /\ [][NextSysEx]_vars

\* The message the constructor is to build: status 0xF0, the VLQ of the
\* number of bytes behind it, data, 0xF7
SysExExpected ==
    Message(input.time, 240,
            write_variable_length(Len(input.data) + 1) \o input.data \o <<247>>)

\* C23: SysEx(time, data) has status byte 0xF0 and payload VLQ length, data,
\* 0xF7, the length counting the 0xF7; encoded and decoded again it is one
\* SysEx event of exactly those bytes.
SysExRoundTrip ==
    /\ (pc = "decoded" /\ round = 1)
       => tracks = <<Append(input.before, SysExExpected)>>
    /\ pc = "failed" => round = 1
    /\ (pc = "decoded" /\ round = 2)
       => tracks = <<Append(input.before, SysExExpected)>>


-----------------------------------------------------------------------------
(* messages::PitchBend *)

MIN_PITCH_BEND == 0 - 8192
MAX_PITCH_BEND == 8191

\* a | b of two non-negative ints
RECURSIVE BitOr(_, _)
BitOr(a, b) ==
    IF a = 0 THEN b
    ELSE IF b = 0 THEN a
    ELSE Max(a % 2, b % 2) + 2 * BitOr(a \div 2, b \div 2)

\* static_cast<int16_t>
ToInt16(v) == ((v + 32768) % 65536) - 32768

\* lut::to_status_byte(status, channel)
to_status_byte(status, channel) == BitOr(status, channel)

\* PitchBend(time, channel, value)
PitchBend(time, channel, value) ==
    Message(time, to_status_byte(224, channel),
            <<ToUint8((value - MIN_PITCH_BEND) % 128),
              ToUint8((value - MIN_PITCH_BEND) \div 128)>>)

\* A pitch_bend that leaves the bias out
pitch_bend_unbiased(msg) ==
    ToInt16(BitOr(msg.data[1], msg.data[2] * 128))

\* PitchBend::pitch_bend
pitch_bend(msg) ==
    ToInt16(BitOr(msg.data[1], msg.data[2] * 128) + MIN_PITCH_BEND)

ConstructPitchBend ==
    /\ pc = "bend"
    /\ messages' = <<PitchBend(0, input.channel, input.value)>>
    /\ pc' = "bend_built"
    /\ UNCHANGED <<mem, size, hdr, scan, gen, tracks, err, oob, bytes, enc,
                   last, round, first, input, output, iter>>

ReadPitchBend ==
    /\ pc = "bend_built"
    /\ output' = pitch_bend(messages[1])
    /\ pc' = "bend_read"
    /\ UNCHANGED <<mem, size, hdr, scan, gen, messages, tracks, err, oob, bytes, enc,
                   last, round, first, input, iter>>

\* Every value of the 14-bit range, the first, a middle and the last channel
PitchBendValues == MIN_PITCH_BEND .. MAX_PITCH_BEND
PitchBendChannels == {0, 9, 15}

InitPitchBend ==
    /\ pc = "bend"
    /\ round = 1
    /\ mem = <<>>
    /\ size = 0
    /\ hdr = NoHeader
    /\ tracks = <<>>
    /\ scan = NoScan
    /\ gen = NoGenerator
    /\ messages = <<>>
    /\ err = "none"
    /\ oob = FALSE
    /\ bytes = <<>>
    /\ enc = NoEnc
    /\ last = NoLast
    /\ first = NoFirst
    /\ output = NoOutput
    /\ iter = NoIter
    /\ \E c \in PitchBendChannels, v \in PitchBendValues :
          input = [channel |-> c, value |-> v]

SpecPitchBend == InitPitchBend /\ [][ConstructPitchBend \/ ReadPitchBend]_vars

\* C24: for every channel and every v in -8192..8191 the constructor stores
\* the 7-bit bytes lo = (v + 8192) & 0x7F and hi = (v + 8192) >> 7, and
\* pitch_bend() on the result returns v.
PitchBendRoundTrip ==
    /\ pc \in {"bend_built", "bend_read"} =>
          /\ messages[1].data = <<(input.value + 8192) % 128, (input.value + 8192) \div 128>>
          /\ \A i \in 1..2 : messages[1].data[i] \in 0..127
          /\ messages[1].statusByte = 224 + input.channel
    /\ pc = "bend_read" =>
          /\ output = input.value
          /\ output = (messages[1].data[1] + messages[1].data[2] * 128) - 8192

\* A value of the high half read back on the last channel
PitchBendHighRead ==
    /\ pc = "bend_read"
    /\ input = [channel |-> 15, value |-> 8191]
    /\ messages[1].data = <<127, 127>>
    /\ output = 8191


-----------------------------------------------------------------------------
(* Running status *)

\* The total length, status byte included, of a status-carrying event
\* decoded as msg: that of the table, or what a SysEx read
TotalLength(msg) ==
    IF msg.statusByte = 240 THEN Len(msg.data) + 1
    ELSE get_msg_length(to_msg_type(msg.statusByte))

\* The last status-carrying message decoded before the step
PreviousStatusMsg ==
    LET sc == StatusCarrying(MessagesBefore) IN sc[Len(sc)]

\* The step met a data byte in status position, a previous status-carrying
\* event of total length L exists, and the L - 1 bytes lie in the chunk
RunningStatusStep ==
    /\ DataByteInStatusPosition
    /\ StatusCarrying(MessagesBefore) # <<>>
    /\ LastStatusAt + TotalLength(PreviousStatusMsg) - 1 <= last.pre.bufferEnd

\* C25: running-status decoding.  Such a step emits one message with the
\* previous status byte, exactly the next L - 1 bytes as payload and time =
\* previous tick offset + delta, and advances the cursor by L - 1.
RunningStatusStepDecodes ==
    RunningStatusStep =>
        LET L == TotalLength(PreviousStatusMsg)
            delta == read_variable_length(mem, last.pre.cursor).value
        IN  /\ pc = "gen"
            /\ last.out.emit = <<Message(MessagesBefore[Len(MessagesBefore)].time + delta,
                                         PreviousStatusMsg.statusByte,
                                         Slice(mem, LastStatusAt, L - 1))>>
            /\ last.out.g.cursor = LastStatusAt + L - 1

\* The bodies of a status and k status-less repetitions: a NoteOn or a
\* ProgramChange, then k events of data bytes alone
Repetitions(k) ==
    { [i \in 1..(k + 1) |-> IF i = 1 THEN v ELSE r] :
        v \in { e \in Events : e.kind = "voice3" },
        r \in { e \in Events : e.kind = "run3" } }
    \cup
    { [i \in 1..(k + 1) |-> IF i = 1 THEN v ELSE r] :
        v \in { e \in Events : e.kind = "voice2" },
        r \in { e \in Events : e.kind = "run2" } }

\* The running sums of the deltas of es
RECURSIVE RunningSums(_, _)
RunningSums(es, time) ==
    IF es = <<>> THEN <<>>
    ELSE <<time + WireDelta(es[1])>> \o RunningSums(Tail(es), time + WireDelta(es[1]))

\* C25, continued: a status followed by k status-less repetitions decodes
\* to k + 1 messages of that status whose times are the running sums of the
\* deltas.
RepetitionsDecode ==
    \A k \in 0..(MaxEvents - 1) : \A es \in Repetitions(k) :
        (/\ pc = "gen"
         /\ done(gen)
         /\ Buffer = HeaderBytes(1, 1, TicksDivision) \o ChunkBytes(MTRK, Len(Wire(es)), Wire(es)))
        => /\ Len(messages) = k + 1
           /\ \A i \in 1..(k + 1) :
                 /\ messages[i].statusByte = es[1].wire[WireDeltaLen(es[1]) + 1]
                 /\ messages[i].time = RunningSums(es, 0)[i]

RunningStatusDecoding == RunningStatusStepDecodes /\ RepetitionsDecode

\* C25, witness: the second repetition behind a NoteOn has been decoded, the
\* three messages at the running sums 0, 16, 32 of the deltas
TwoRepetitionsDecoded ==
    /\ RunningStatusStep
    /\ pc = "gen"
    /\ done(gen)
    /\ Len(messages) = 3
    /\ \A i \in 1..3 : messages[i].statusByte = 144 /\ messages[i].time = 16 * (i - 1)
    /\ messages[3].data = <<60, 0>>


\* The track holds a voice message of status S and, behind the last
\* status-carrying message, Meta messages only, at least one
VoiceThenMeta(msgs) ==
    /\ msgs # <<>>
    /\ msgs[Len(msgs)].statusByte = 255
    /\ StatusCarrying(msgs) # <<>>
    /\ StatusCarrying(msgs)[Len(StatusCarrying(msgs))].statusByte \in 128..239

VoiceStatus(msgs) == StatusCarrying(msgs)[Len(StatusCarrying(msgs))].statusByte

\* C26: Meta events leave running status untouched.  After a voice status S
\* of length L and any number of Meta events that are no EndOfTrack, the
\* generator's previous status and previous length are still S and L, and a
\* following data byte in status position decodes to a message with status
\* S and L - 1 data bytes.
MetaKeepsRunningStatus ==
    /\ (pc = "gen" /\ VoiceThenMeta(messages) /\ ~gen.foundEOT) =>
          /\ gen.prevStatusCode = VoiceStatus(messages)
          /\ gen.prevEventLen = get_msg_length(to_msg_type(VoiceStatus(messages)))
    /\ (/\ DataByteInStatusPosition
        /\ VoiceThenMeta(MessagesBefore)
        /\ LastStatusAt + get_msg_length(to_msg_type(VoiceStatus(MessagesBefore))) - 1
              <= last.pre.bufferEnd) =>
          /\ pc = "gen"
          /\ Len(last.out.emit) = 1
          /\ last.out.emit[1].statusByte = VoiceStatus(MessagesBefore)
          /\ Len(last.out.emit[1].data)
                = get_msg_length(to_msg_type(VoiceStatus(MessagesBefore))) - 1

\* C26, witness: a NoteOn, a Meta event, then data bytes alone decoded as a
\* third message with the NoteOn's status
RunningStatusAcrossMeta ==
    /\ DataByteInStatusPosition
    /\ pc = "gen"
    /\ Len(messages) = 3
    /\ messages[1].statusByte = 144
    /\ messages[2].statusByte = 255
    /\ messages[3] = Message(16, 144, <<60, 0>>)


-----------------------------------------------------------------------------
(* The framing of the encoder's output *)

\* C27: encoder framing.  In the output of to_bytes(), bytes 0..7 are
\* 'MThd' 00 00 00 06, bytes 10..11 hold the number of tracks MSB-first, the
\* chunks follow contiguously, and the length of each MTrk chunk is the
\* number of bytes between the end of its 8-byte header and the start of the
\* next chunk (or the end of the buffer), the synthetic EndOfTrack included.
EncoderFraming ==
    pc = "encoded" =>
        /\ Slice(bytes, 0, 8) = <<77, 84, 104, 100, 0, 0, 0, 6>>
        /\ Rd(bytes, 10) * 256 + Rd(bytes, 11) = Len(tracks)
        /\ Len(TrackChunks) = Len(tracks)
        /\ \A i \in 1..Len(TrackChunks) :
              /\ TrackChunks[i].id = <<77, 84, 114, 107>>
              /\ TrackChunks[i].begin
                    = (IF i = 1 THEN HEADER_LENGTH ELSE TrackChunks[i - 1].end)
              /\ TrackChunks[i].end
                    = (IF i = Len(TrackChunks) THEN Len(bytes) ELSE TrackChunks[i + 1].begin)
              /\ Slice(bytes, TrackChunks[i].end - 3, 3) = <<255, 47, 0>>
        /\ Len(tracks) = 0 => Len(bytes) = HEADER_LENGTH

\* C27, witness: a file of two tracks, the first holding a message, encoded
FramedTwoTracks ==
    /\ pc = "encoded"
    /\ Len(tracks) = 2
    /\ tracks[1] # <<>>
    /\ Slice(bytes, 10, 2) = <<0, 2>>
    /\ TrackChunks[2].end = Len(bytes)


-----------------------------------------------------------------------------
(* The legacy header: track::Track::to_bytes of include/MiniMidi.hpp *)

\* message::Message(time, data): the status byte is data[0]
LegacyMessage(time, data) == [time |-> time, data |-> data]

\* utils::variable_length_bytes
variable_length_bytes(num) ==
    IF num < 128 THEN 1
    ELSE IF num < 16384 THEN 2
    ELSE IF num < 2097152 THEN 3
    ELSE 4

\* utils::write_variable_length(uint8_t*&, uint32_t) of the legacy header:
\* the bytes written
legacy_write_variable_length(num) ==
    LET byteNum == variable_length_bytes(num)
    IN  [i \in 1..byteNum |->
            IF i < byteNum THEN ContinuationByte(num, 7 * (byteNum - i))
            ELSE num % 128]

\* The test of the first loop of to_bytes: the message is kept
LegacyKept(msg) == msg.data[1] # 255 \/ msg.data[2] # 47

SortHelper(time, index) == [time |-> time, index |-> index]

\* The SortHelpers of the messages from index i on (0-based) that are kept
RECURSIVE CollectHeaders(_, _)
CollectHeaders(msgs, i) ==
    IF i >= Len(msgs) THEN <<>>
    ELSE (IF LegacyKept(msgs[i + 1]) THEN <<SortHelper(msgs[i + 1].time, i)>> ELSE <<>>)
         \o CollectHeaders(msgs, i + 1)

RECURSIVE SumDataLen(_)
SumDataLen(msgs) ==
    IF msgs = <<>> THEN 0
    ELSE (IF LegacyKept(Head(msgs)) THEN Len(Head(msgs).data) ELSE 0) + SumDataLen(Tail(msgs))

\* The comparator handed to std::stable_sort
LegacyLess(m1, m2) == m1.time < m2.time /\ m1.index < m2.index

\* std::stable_sort on the few elements of a track: an insertion sort, each
\* element moved left past the elements it is less than
RECURSIVE LegacyInsert(_, _)
LegacyInsert(sorted, h) ==
    IF sorted = <<>> \/ ~LegacyLess(h, sorted[Len(sorted)]) THEN Append(sorted, h)
    ELSE Append(LegacyInsert(SubSeq(sorted, 1, Len(sorted) - 1), h), sorted[Len(sorted)])

RECURSIVE legacy_stable_sort(_)
legacy_stable_sort(hs) ==
    IF hs = <<>> THEN <<>>
    ELSE LegacyInsert(legacy_stable_sort(SubSeq(hs, 1, Len(hs) - 1)), hs[Len(hs)])

\* The locals of to_bytes
NoLegacy == [msgHeaders |-> <<>>, allocated |-> 0, i |-> 0, prevTime |-> 0,
             prevStatus |-> 0, deltas |-> <<>>]

\* to_bytes: msgHeaders and dataLen
LegacyCollect ==
    /\ pc = "legacy"
    /\ enc' = [NoLegacy EXCEPT !.msgHeaders = CollectHeaders(messages, 0)]
    /\ pc' = "legacy_sort"
    /\ UNCHANGED <<mem, size, hdr, scan, gen, messages, tracks, err, oob, bytes,
                   last, round, first, input, output, iter>>

\* to_bytes: std::stable_sort, trackBytes(dataLen + 4 * n + 8), "MTrk" and
\* the four bytes left for the length
LegacySort ==
    /\ pc = "legacy_sort"
    /\ enc' = [enc EXCEPT !.msgHeaders = legacy_stable_sort(enc.msgHeaders),
                          !.allocated = SumDataLen(messages) + 4 * Len(enc.msgHeaders) + 8]
    /\ bytes' = MTRK \o <<0, 0, 0, 0>>
    /\ pc' = "legacy_write"
    /\ UNCHANGED <<mem, size, hdr, scan, gen, messages, tracks, err, oob,
                   last, round, first, input, output, iter>>

\* to_bytes: one turn of the loop over msgHeaders
LegacyWriteMessage ==
    /\ pc = "legacy_write"
    /\ enc.i < Len(enc.msgHeaders)
    /\ LET thisMsg == messages[enc.msgHeaders[enc.i + 1].index + 1]
           delta == DeltaTime(thisMsg.time, enc.prevTime)
           status == thisMsg.data[1]
           running == status \notin {255, 240, 247} /\ status = enc.prevStatus
       IN  /\ bytes' = bytes \o legacy_write_variable_length(delta)
                       \o (IF running THEN Tail(thisMsg.data) ELSE thisMsg.data)
           /\ enc' = [enc EXCEPT !.i = enc.i + 1, !.prevTime = thisMsg.time,
                                 !.prevStatus = status,
                                 !.deltas = Append(enc.deltas, delta)]
    /\ UNCHANGED <<pc, mem, size, hdr, scan, gen, messages, tracks, err, oob,
                   last, round, first, input, output, iter>>

\* What writing past the end of trackBytes and resizing it up to the cursor
\* may leave: the bytes written, zeros in their place, or a crash
OverrunOutcomes == {"kept", "zeroed", "fault"}

\* to_bytes: the EndOfTrack, the chunk length, the resize and the return
LegacyWriteEot ==
    /\ pc = "legacy_write"
    /\ enc.i >= Len(enc.msgHeaders)
    /\ LET b == bytes \o legacy_write_variable_length(1) \o <<255, 47, 0>>
           written == Patch(b, 4, Len(b) - 8, 4)
       IN  IF Len(written) <= enc.allocated
           THEN /\ output' = written
                /\ pc' = "legacy_done"
                /\ err' = err
           ELSE \E o \in OverrunOutcomes :
                   IF o = "fault" THEN Fail("fault") /\ output' = output
                   ELSE /\ output' = [i \in 1..Len(written) |->
                                        IF o = "zeroed" /\ i > enc.allocated THEN 0
                                        ELSE written[i]]
                        /\ pc' = "legacy_done"
                        /\ err' = err
    /\ UNCHANGED <<mem, size, hdr, scan, gen, messages, tracks, oob, bytes, enc,
                   last, round, first, input, iter>>

NextLegacy == LegacyCollect \/ LegacySort \/ LegacyWriteMessage \/ LegacyWriteEot

\* Messages of a legacy track: voice messages at three times, a Meta, an
\* EndOfTrack
LegacyMsgs ==
    { LegacyMessage(0, <<144, 60, 100>>),
      LegacyMessage(5, <<144, 62, 100>>),
      LegacyMessage(5, <<128, 60, 0>>),
      LegacyMessage(200, <<128, 62, 0>>),
      LegacyMessage(0, <<255, 1, 1, 65>>),
      LegacyMessage(9, <<255, 47, 0>>) }

InitLegacy ==
    /\ pc = "legacy"
    /\ round = 1
    /\ mem = <<>>
    /\ size = 0
    /\ hdr = NoHeader
    /\ tracks = <<>>
    /\ scan = NoScan
    /\ gen = NoGenerator
    /\ messages \in SeqsUpTo(LegacyMsgs, MaxMsgs)
    /\ err = "none"
    /\ oob = FALSE
    /\ bytes = <<>>
    /\ enc = NoLegacy
    /\ last = NoLast
    /\ first = NoFirst
    /\ input = 0
    /\ output = NoOutput
    /\ iter = NoIter

SpecLegacy == InitLegacy /\ [][NextLegacy]_vars

\* C28: legacy encoder ordering.  Whatever the order of the messages in
\* memory, to_bytes() writes the messages that are no EndOfTrack in
\* non-decreasing time order, equal-time messages in insertion order, so
\* every delta it writes is time - prev_time >= 0 with no wrap-around.
LegacyOrdered ==
    pc \in {"legacy_write", "legacy_done"} =>
        LET h == enc.msgHeaders
        IN  /\ \A i \in 1..Len(h) : \A j \in (i + 1)..Len(h) :
                  \/ h[i].time < h[j].time
                  \/ h[i].time = h[j].time /\ h[i].index < h[j].index
            /\ \A k \in 1..Len(enc.deltas) :
                  /\ enc.deltas[k] = h[k].time - (IF k = 1 THEN 0 ELSE h[k - 1].time)
                  /\ enc.deltas[k] >= 0


-----------------------------------------------------------------------------
(* The iterator of a TrackView and the owning Track *)

\* Track(cursor, size): `while (!generator.done()) emplace_using(emplace_back)`,
\* the messages of the track, or the exception or fault that ends the loop
RECURSIVE TrackLoop(_, _)
TrackLoop(m, g) ==
    IF done(g) THEN [messages |-> <<>>, err |-> "none"]
    ELSE LET out == emplace_using(m, g)
         IN  IF Fault(m, out) THEN [messages |-> <<>>, err |-> "fault"]
             ELSE IF out.err # "none" THEN [messages |-> <<>>, err |-> out.err]
             ELSE LET rest == TrackLoop(m, out.g)
                  IN  [messages |-> out.emit \o rest.messages, err |-> rest.err]

Track(m, cursor, sz) == TrackLoop(m, MessageGenerator(cursor, sz))

\* C29: view/owning equivalence.  On every range on which decoding does not
\* fail, draining the iterator from begin() until it equals end() yields the
\* messages of the owning Track built from the same range, and begin() ==
\* end() holds exactly when that Track is empty.
ViewEqualsTrack ==
    LET t == Track(mem, 0, size)
    IN  /\ pc = "scan" => t.err = "none" /\ tracks = <<t.messages>>
        /\ t.err = "none" =>
              /\ pc \in {"view", "view_test", "view_body", "view_inc", "view_end"}
                    => err = "none"
              /\ pc = "view_end" => messages = t.messages
              /\ (pc = "view_test" /\ messages = <<>>)
                    => (gen.foundEOT <=> t.messages = <<>>)
        /\ (t.err # "none" /\ iter # NoIter) => pc # "view_end"

\* C29, witness: the iterator drained over an open track of two messages,
\* the owning Track of the range holding the same two
ViewDrainedTwo ==
    /\ pc = "view_end"
    /\ Len(messages) = 2
    /\ ~last.out.g.foundEOT
    /\ Track(mem, 0, size) = [messages |-> messages, err |-> "none"]


-----------------------------------------------------------------------------
(* Termination of the decode *)

\* Files of one track that is a status and its status-less repetitions
RepetitionFiles ==
    { HeaderBytes(1, 1, TicksDivision) \o ChunkBytes(MTRK, Len(Wire(es)), Wire(es)) :
        es \in UNION { Repetitions(k) : k \in 0..(MaxEvents - 1) } }

\* The buffers whose decode is followed to its end: those whose chunks and
\* header disagree with the buffer, those with unknown chunks, the repetitions
TerminationFiles == OddFiles \cup UnknownChunkFiles \cup RepetitionFiles

InitTerminate ==
    /\ pc = "start"
    /\ round = 1
    /\ \E f \in TerminationFiles, b \in Beyond : mem = f \o b /\ size = Len(f)
    /\ InitCommon

\* The decode scheduled as the program runs it: the loops go on until they
\* end or throw
SpecDecodeFair == InitTerminate /\ [][NextDecode]_vars /\ WF_vars(NextDecode)

\* The steps the generator of the current track has begun: one for every
\* message emitted, one for the EndOfTrack found, one for the step that threw
GeneratorSteps ==
    Len(messages) + (IF gen.foundEOT THEN 1 ELSE 0)
    + (IF pc = "failed" /\ AfterGeneratorStep THEN 1 ELSE 0)

\* The chunks of the memory as the scanner walks them
MemChunks == Chunks(mem, HEADER_LENGTH)

\* The generator is that of a track range of n bytes
RangeOfBytes(n) ==
    \E i \in 1..Len(MemChunks) :
        /\ MemChunks[i].id = MTRK
        /\ MemChunks[i].end = gen.bufferEnd
        /\ MemChunks[i].end - MemChunks[i].begin - 8 = n

\* A generator step that returned moved the cursor forward by at least one byte
GeneratorMovesForward ==
    (pc = "gen" /\ ~done(gen) /\ pc' = "gen") => gen'.cursor >= gen.cursor + 1

\* A chunk the scanner passed moved its cursor forward by at least 8 bytes
ScannerMovesForward ==
    (pc = "chunk" /\ pc' \in {"chunk", "gen"}) => scan'.cursor >= scan.cursor + 8

\* For a track range of n bytes the generator has begun at most n steps
StepsBounded ==
    (pc = "gen" \/ (pc = "failed" /\ AfterGeneratorStep)) =>
        \E n \in 0..(gen.bufferEnd) : RangeOfBytes(n) /\ GeneratorSteps <= n

\* C30: decoding terminates.  Every generator step either raises or moves
\* the cursor forward by at least one byte, the cursor never moves
\* backwards, so for a track range of n bytes the generator is done or has
\* failed after at most n steps; the chunk scanner advances by at least 8
\* bytes per chunk; and the decode ends.
DecodingTerminates ==
    /\ [][GeneratorMovesForward /\ ScannerMovesForward]_vars
    /\ []StepsBounded
    /\ <>(pc \in {"decoded", "failed"})

\* C30, witness: the generator done after three steps, the cursor at the
\* end of a range it did not leave
ThreeStepsDone ==
    /\ pc = "gen"
    /\ done(gen)
    /\ gen.cursor = gen.bufferEnd
    /\ GeneratorSteps = 3
    /\ ~gen.foundEOT

=============================================================================
